---------------------------- MODULE Spec2Model ----------------------------
(***************************************************************************)
(* Incremental analysis and caching pipeline of cvgorod-hub.               *)
(*                                                                         *)
(*   services/expectations.py   analyze_expectations, write_cache,         *)
(*                              DeepSeekExpectationAnalyzer.analyze        *)
(*   scripts/analyze_messages.py  fetch_batch, process_message, main       *)
(*   services/intent_classifier.py  IntentClassifier.classify              *)
(*                                                                         *)
(* One process runs one program at a time; prog says which one.  Each      *)
(* program has its own specification (SpecAnalyzer, Spec, SpecBackfill),   *)
(* and the variables of the other programs stay at their idle value.       *)
(***************************************************************************)
EXTENDS Integers, Sequences, FiniteSets, TLC

VARIABLES
    prog,           \* the program being executed
    \* ---- DeepSeekExpectationAnalyzer.analyze (one invocation)
    an_pc,          \* position inside analyze
    attempt,        \* loop variable of "for attempt in range(3)"
    posts,          \* number of client.post calls made so far
    slept,          \* the asyncio.sleep durations, in order
    last_http,      \* outcome of the latest client.post
    an_out,         \* what analyze gave back to its caller
    \* ---- the world of analyze_expectations
    now,            \* datetime.utcnow()
    store,          \* the messages table: rows [chat_id, timestamp, text]
    fs,             \* the files at CACHE_PATH ("cache") and at tmp_path ("tmp")
    \* ---- one run of analyze_expectations
    phase,          \* position of analyze_expectations
    args,           \* its keyword arguments, and whether DEEPSEEK_API_KEY is set
    context_since,  \* utcnow() - timedelta(days=context_days)
    cache,          \* the document load_cache returned; cache.chats is chats_cache
    active_chats,   \* the rows of _fetch_active_chats, after the limit
    pc,             \* position of each process_chat task
    semaphore,      \* the value of asyncio.Semaphore(concurrency)
    analyzed,       \* nonlocal counter
    skipped,        \* nonlocal counter
    \* ---- what an observer of the run records
    disk_before,    \* the file at CACHE_PATH when the run started
    gate_skipped,   \* chats the staleness gate stopped in this run
    fetched,        \* chats whose context was fetched in this run
    called,         \* chats for which analyzer.analyze was called in this run
    settled,        \* the previous run had no limit and wrote the cache, and no
                    \* message was stored from its start to the start of this run
    new_msgs,       \* a message was stored since the latest run started
    runs,           \* runs started so far
    \* ---- the tables scripts/analyze_messages.py reads and writes
    messages,       \* messages joined with users and user_roles, by id
    message_analysis, \* the rows of message_analysis, by message_id
    \* ---- one run of scripts/analyze_messages.py main
    bf_phase,       \* position of main
    bf_args,        \* since, until and the command line
    last_ts,        \* cursor: timestamp of the last row of the latest batch
    last_id,        \* cursor: id of that row
    batch,          \* the rows fetch_batch returned
    bf_pc,          \* position of each process_message task
    bf_semaphore,   \* the value of asyncio.Semaphore(args.concurrency)
    analysis,       \* the MessageAnalysis a task got from classify
    results,        \* what each task returned: <<saved, intent>>
    total_processed,
    total_saved,
    intent_counts,
    \* ---- what an observer of the backfill records
    eligible,       \* ids fetch_batch's WHERE clause admits when main starts
    visited,        \* ids of the rows of all batches, in order
    failed_calls,   \* ids whose provider call raised
    \* ---- one call of IntentClassifier.classify
    cl_pc,          \* position inside classify
    cl_message_id,  \* its message_id argument
    cl_reply,       \* what the provider call gave
    cl_exc,         \* the exception raised inside the try block, "" when none
    cl_out,         \* the MessageAnalysis classify returned
    \* ---- the processes that run analyze_expectations at the same time
    wr_pc,          \* position of each process inside write_cache
    wr_doc,         \* the document each process is writing
    wr_fd,          \* the path at which the file it has open is found
    wr_raced,       \* another process wrote into the file it has open
    \* ---- a second run of scripts/analyze_messages.py, with
    \* ---- --batch-size 1 --concurrency 1, over the same tables
    o_phase,        \* position of its main
    o_last_ts,      \* its cursor
    o_last_id,
    o_batch,        \* the rows of its latest fetch_batch
    o_pc,           \* position of its process_message task
    o_analysis,     \* the MessageAnalysis its task got from classify
    lc_pc,
    lc_file,
    lc_exc,
    lc_cache,
    lc_chats,
    rt_pc,
    rt_senders,
    rt_context,
    sn_phase,
    sn_args,
    sn_offset,
    sn_batch,
    sn_results,
    sn_sentiment,
    sn_omitted,
    \* ---- what an observer of the collector and the runs records
    unseen,         \* messages with a text stored after the context fetch of
                    \* their chat's task in flight, in no context since
    ru_pc,
    ru_cache,
    ru_made,
    pr_status,
    pr_pc,
    pr_deliveries

an_vars == <<an_pc, attempt, posts, slept, last_http, an_out>>

world_vars == <<now, store, fs>>

run_vars == <<phase, args, context_since, cache, active_chats, pc, semaphore,
              analyzed, skipped>>

obs_vars == <<disk_before, gate_skipped, fetched, called, settled, new_msgs, runs>>

ex_vars == <<world_vars, run_vars, obs_vars>>

table_vars == <<messages, message_analysis>>

loop_vars == <<bf_phase, bf_args, last_ts, last_id, batch, bf_pc, bf_semaphore,
               analysis, results, total_processed, total_saved, intent_counts>>

seen_vars == <<eligible, visited, failed_calls>>

bf_vars == <<table_vars, loop_vars, seen_vars>>

cl_vars == <<cl_pc, cl_message_id, cl_reply, cl_exc, cl_out>>

wr_vars == <<wr_pc, wr_doc, wr_fd, wr_raced>>

ov_vars == <<o_phase, o_last_ts, o_last_id, o_batch, o_pc, o_analysis>>

lc_vars == <<lc_pc, lc_file, lc_exc, lc_cache, lc_chats>>


rt_vars == <<rt_pc, rt_senders, rt_context>>



sn_vars == <<sn_phase, sn_args, sn_offset, sn_batch, sn_results, sn_sentiment, sn_omitted>>


lost_vars == <<unseen>>


ru_vars == <<ru_pc, ru_cache, ru_made>>


pr_vars == <<pr_status, pr_pc, pr_deliveries>>


vars == <<prog, an_vars, ex_vars, bf_vars, cl_vars, wr_vars, ov_vars, lc_vars, rt_vars, sn_vars, lost_vars, ru_vars, pr_vars>>

(***************************************************************************)
(* Bounds of the model.                                                    *)
(***************************************************************************)
MaxActions == 4      \* longest "actions" list the provider returns
NumChats == 2        \* chats of the messages table
MaxTime == 2         \* the clock stops here
MaxMsgs == 2         \* rows the collector stores
MaxRuns == 2         \* runs of analyze_expectations
MaxConcurrency == 2  \* largest value of the concurrency argument
ActiveWindow == 1    \* active_hours, in clock ticks
ContextWindow == 1   \* context_days, in clock ticks
NumMsgs == 3         \* rows of the messages table the backfill reads
MaxTs == 3           \* largest timestamp of such a row
MaxBatch == 2        \* largest value of --batch-size

(***************************************************************************)
(* Python values.                                                          *)
(***************************************************************************)
None == << >>
Some(x) == <<x>>

(***************************************************************************)
(* The cache document and the files.                                       *)
(*   document  [updated_at, chats, stats]; chats maps the chat ids that    *)
(*             have an entry to the entry                                  *)
(*   entry     [last_message_at, last_analyzed_at, priority, actions,      *)
(*             skipped]  (the name, expectation and token fields of an     *)
(*             entry are copied along and not modelled)                    *)
(*   file      [exists, complete, doc]; complete is false while the text   *)
(*             of doc is only partly in the file                           *)
(***************************************************************************)
Chats == 1..NumChats
Time == 0..MaxTime

\* the document of load_cache when there is no readable file
EmptyDoc == [updated_at |-> None, chats |-> << >>, stats |-> None]

NoFile == [exists |-> FALSE, complete |-> FALSE, doc |-> EmptyDoc]

NoArgs == [force |-> FALSE, dry_run |-> FALSE, limit |-> None, concurrency |-> 1]

\* no run of analyze_expectations has started
RunIdle ==
    /\ phase = "idle"
    /\ args = NoArgs
    /\ context_since = 0
    /\ cache = EmptyDoc
    /\ active_chats = << >>
    /\ pc = [c \in Chats |-> "idle"]
    /\ semaphore = 0
    /\ analyzed = 0
    /\ skipped = 0
    /\ disk_before = NoFile
    /\ gate_skipped = {}
    /\ fetched = {}
    /\ called = {}
    /\ settled = FALSE
    /\ new_msgs = FALSE
    /\ runs = 0

\* a fresh installation: no message, no cache file
ExIdle ==
    /\ now = 0
    /\ store = {}
    /\ fs = [cache |-> NoFile, tmp |-> NoFile]
    /\ RunIdle

AnIdle ==
    /\ an_pc = "idle"
    /\ attempt = 0
    /\ posts = 0
    /\ slept = << >>
    /\ last_http = [error |-> "", content |-> None]
    /\ an_out = None

Msgs == 1..NumMsgs

\* scripts/analyze_messages.py is not running
BfIdle ==
    /\ messages = << >>
    /\ message_analysis = << >>
    /\ bf_phase = "idle"
    /\ bf_args = [since |-> 0, until |-> 0, batch_size |-> 1, concurrency |-> 1,
                  dry_run |-> FALSE]
    /\ last_ts = 0
    /\ last_id = 0
    /\ batch = << >>
    /\ bf_pc = [m \in Msgs |-> "idle"]
    /\ bf_semaphore = 0
    /\ analysis = [m \in Msgs |-> None]
    /\ results = [m \in Msgs |-> None]
    /\ total_processed = 0
    /\ total_saved = 0
    /\ intent_counts = << >>
    /\ eligible = {}
    /\ visited = << >>
    /\ failed_calls = {}

\* the operating-system processes that can run analyze_expectations: the
\* script, and the API server (whose requests run write_cache one at a time,
\* write_cache having no await)
Writers == {"script", "api"}

\* classify is not being called
ClIdle ==
    /\ cl_pc = "idle"
    /\ cl_message_id = 0
    /\ cl_reply = [error |-> "", content |-> None, tokens |-> 0]
    /\ cl_exc = ""
    /\ cl_out = None

\* no process is inside write_cache
WrIdle ==
    /\ wr_pc = [w \in Writers |-> "idle"]
    /\ wr_doc = [w \in Writers |-> EmptyDoc]
    /\ wr_fd = [w \in Writers |-> "tmp"]
    /\ wr_raced = [w \in Writers |-> FALSE]

\* there is no second run of the backfill
OvIdle ==
    /\ o_phase = "idle"
    /\ o_last_ts = 0
    /\ o_last_id = 0
    /\ o_batch = << >>
    /\ o_pc = "idle"
    /\ o_analysis = None

\* load_cache is not being called
LcIdle ==
    /\ lc_pc = "idle"
    /\ lc_file = [state |-> "missing"]
    /\ lc_exc = ""
    /\ lc_cache = None
    /\ lc_chats = None


\* _fetch_context is not being called
RtIdle ==
    /\ rt_pc = "idle"
    /\ rt_senders = << >>
    /\ rt_context = << >>


\* scripts/analyze_sentiment.py is not running
SnIdle ==
    /\ sn_phase = "idle"
    /\ sn_args = [limit |-> 1, dry_run |-> FALSE]
    /\ sn_offset = 0
    /\ sn_batch = << >>
    /\ sn_results = << >>
    /\ sn_sentiment = << >>
    /\ sn_omitted = {}


\* no message has been stored behind the back of an analysis
LostIdle == unseen = {}


\* no two runs of analyze_expectations overlap
RuIdle ==
    /\ ru_pc = [r \in Writers |-> "idle"]
    /\ ru_cache = [r \in Writers |-> EmptyDoc]
    /\ ru_made = [r \in Writers |-> << >>]


\* the requests of the sandbox for one row of pending_responses
Approvers == {"approve_1", "approve_2", "approve_batch"}

SandboxRequests == Approvers \cup {"reject", "delete"}

\* there is no such row
PrIdle ==
    /\ pr_status = "none"
    /\ pr_pc = [r \in SandboxRequests |-> "idle"]
    /\ pr_deliveries = << >>


\* the generic action appended by analyze (line 145)
FILLER == <<"filler">>

\* range(3) of the retry loop
RetryAttempts == 3

\* a set of priorities that lets "urgent" through
ValidPrioritiesWide == {"high", "medium", "low", "urgent"}

ValidPriorities == {"high", "medium", "low"}

(***************************************************************************)
(* What the provider can answer.  The text of a reply (the "content" of    *)
(* the first choice) is described by what json.loads makes of it:          *)
(*   fence    the text is wrapped in ```json ... ```                       *)
(*   json     "invalid" (not JSON), "array", "string", "number", "null",   *)
(*            or "object"                                                  *)
(*   actions  of an object: "missing", "not_list", or the list returned    *)
(*   priority of an object: "missing", a string, or "unhashable" (a JSON   *)
(*            list or object in the place of the string)                   *)
(***************************************************************************)
ProviderAction(i) == <<"action", i>>

ActionLists == { [i \in 1..n |-> ProviderAction(i)] : n \in 0..MaxActions }

ActionsFields ==
    [kind : {"missing", "not_list"}, items : {<< >>}]
    \cup [kind : {"list"}, items : ActionLists]

MissingActions == [kind |-> "missing", items |-> << >>]

PriorityFields == {"missing", "unhashable", "urgent"} \cup ValidPriorities

JsonKinds == {"invalid", "array", "string", "number", "null", "object"}

Contents ==
    [fence : BOOLEAN, json : JsonKinds \ {"object"},
     actions : {MissingActions}, priority : {"missing"}]
    \cup
    [fence : BOOLEAN, json : {"object"},
     actions : ActionsFields, priority : PriorityFields]

\* content.replace("```json", "").replace("```", "").strip()
strip_fences(content) == [content EXCEPT !.fence = FALSE]

\* json.loads: a fenced text is not JSON, nor is an "invalid" one
json_loads(text) ==
    IF text.fence \/ text.json = "invalid"
    THEN [raised |-> "JSONDecodeError"]
    ELSE [raised |-> "", value |-> text]

\* a default with the priority "medium"
DefaultResultMedium == [expectation |-> "", priority |-> "medium", actions |-> << >>]

\* the default of the except branch
DefaultResult == [expectation |-> "", priority |-> "low", actions |-> << >>]

\* the padding with "if" in the place of "while"
pad_actions_once(actions) ==
    IF Len(actions) < 3 THEN Append(actions, FILLER) ELSE actions

\* the list after "while len(actions) < 3: actions.append(FILLER)"
pad_actions(actions) ==
    actions \o [i \in 1..(IF Len(actions) < 3 THEN 3 - Len(actions) ELSE 0) |-> FILLER]

\* actions[:3]
first3(actions) == SubSeq(actions, 1, IF Len(actions) < 3 THEN Len(actions) ELSE 3)

\* lines 141-151 on a dict: the actions and the priority of the result
normalize(result) ==
    LET \* result.get("actions", []), then the isinstance check
        actions == IF result.actions.kind = "list" THEN result.actions.items ELSE << >>
    IN  IF result.priority = "unhashable"
        THEN [raised |-> "TypeError"]
        ELSE [raised |-> "",
              result |-> [priority |-> IF result.priority \notin ValidPriorities
                                       THEN "medium" ELSE result.priority,
                          actions |-> first3(pad_actions(actions))]]

\* lines 131-151: parse and normalise the content of a received response
parse_content(content) ==
    LET parsed == json_loads(strip_fences(content))
    IN  IF parsed.raised # ""
        THEN normalize([actions |-> [kind |-> "list", items |-> DefaultResult.actions],
                        priority |-> DefaultResult.priority])
        ELSE IF parsed.value.json # "object"
        THEN [raised |-> "AttributeError"]
        ELSE normalize([actions |-> parsed.value.actions,
                        priority |-> parsed.value.priority])

(***************************************************************************)
(* Outcomes of one client.post (with raise_for_status).                    *)
(***************************************************************************)
RetriedErrors == {"ConnectTimeout", "ReadTimeout"}
OtherErrors == {"WriteTimeout", "ConnectError", "HTTPStatusError"}
TransportErrors == RetriedErrors \cup OtherErrors

HttpOutcomes ==
    [error : TransportErrors, content : {None}]
    \cup [error : {""}, content : { Some(c) : c \in Contents }]

NoHttp == [error |-> "", content |-> None]

(***************************************************************************)
(* DeepSeekExpectationAnalyzer.analyze, the httpx branch.                  *)
(***************************************************************************)
AnInit ==
    /\ prog = "analyze"
    /\ an_pc = "post"
    /\ attempt = 0
    /\ posts = 0
    /\ slept = << >>
    /\ last_http = NoHttp
    /\ an_out = None
    /\ ExIdle
    /\ BfIdle
    /\ ClIdle
    /\ WrIdle
    /\ OvIdle
    /\ PrIdle
    /\ RuIdle
    /\ LostIdle
    /\ SnIdle
    /\ RtIdle
    /\ LcIdle

\* except (ConnectTimeout, ReadTimeout): the errors the loop catches
is_retried(error) == error \in RetriedErrors

\* the test of the last attempt one too far ("if attempt == 3")
is_last_attempt_late(a) == a = RetryAttempts

\* "if attempt == 2: raise"
is_last_attempt(a) == a = RetryAttempts - 1

\* one iteration of the loop: the post and its except clause
an_post ==
    /\ prog = "analyze"
    /\ an_pc = "post"
    /\ attempt < RetryAttempts
    /\ \E h \in HttpOutcomes :
        /\ last_http' = h
        /\ posts' = posts + 1
        /\ IF h.error = ""
           THEN /\ an_pc' = "parse"                       \* break
                /\ UNCHANGED <<attempt, slept, an_out>>
           ELSE IF is_retried(h.error) /\ ~is_last_attempt(attempt)
           THEN /\ an_pc' = "sleep"
                /\ UNCHANGED <<attempt, slept, an_out>>
           ELSE /\ an_pc' = "raised"                      \* raise / not caught
                /\ an_out' = Some([raised |-> h.error])
                /\ UNCHANGED <<attempt, slept>>
    /\ UNCHANGED <<prog, pr_vars, ru_vars, lost_vars, sn_vars, rt_vars, lc_vars, cl_vars, wr_vars, ov_vars, bf_vars, ex_vars>>

\* await asyncio.sleep(2 ** attempt), then the next iteration
an_sleep ==
    /\ prog = "analyze"
    /\ an_pc = "sleep"
    /\ slept' = Append(slept, 2 ^ attempt)
    /\ attempt' = attempt + 1
    /\ an_pc' = "post"
    /\ UNCHANGED <<prog, pr_vars, ru_vars, lost_vars, sn_vars, rt_vars, lc_vars, cl_vars, wr_vars, ov_vars, bf_vars, posts, last_http, an_out, ex_vars>>

\* lines 131-151
an_parse ==
    /\ prog = "analyze"
    /\ an_pc = "parse"
    /\ LET r == parse_content(last_http.content[1])
       IN  /\ an_out' = Some(r)
           /\ an_pc' = IF r.raised = "" THEN "returned" ELSE "raised"
    /\ UNCHANGED <<prog, pr_vars, ru_vars, lost_vars, sn_vars, rt_vars, lc_vars, cl_vars, wr_vars, ov_vars, bf_vars, attempt, posts, slept, last_http, ex_vars>>

AnNext == an_post \/ an_sleep \/ an_parse

SpecAnalyzer == AnInit /\ [][AnNext]_vars


(***************************************************************************)
(* Properties of DeepSeekExpectationAnalyzer.analyze.                      *)
(***************************************************************************)
\* C7 as stated: analyze raises for transport failures only, never once a
\* response has been received, whatever its text.
C7_NeverRaisesOnContent ==
    (prog = "analyze" /\ an_pc = "raised") => last_http.error # ""

\* failures of the network or of a timeout that pass with time
TransientErrors == {"ConnectTimeout", "ReadTimeout", "WriteTimeout", "ConnectError"}

Backoffs == \A i \in 1..Len(slept) : slept[i] = 2 ^ (i - 1)

GivenActions ==
    LET c == last_http.content[1]
    IN  IF c.json = "object" /\ c.actions.kind = "list" THEN c.actions.items ELSE << >>

\* C16: a result analyze returns has exactly 3 actions: the first 3 of the
\* provider's list, followed by the filler where the list is shorter, is
\* missing or is not a list.
C16_ThreeActions ==
    (prog = "analyze" /\ an_pc = "returned") =>
        /\ Len(an_out[1].result.actions) = 3
        /\ \A i \in 1..3 :
              an_out[1].result.actions[i] =
                 IF i <= Len(GivenActions) THEN GivenActions[i] ELSE <<"filler">>

\* a list of one action came back padded with two fillers
C16_Witness ==
    /\ prog = "analyze" /\ an_pc = "returned"
    /\ last_http.content[1].json = "object"
    /\ last_http.content[1].actions.kind = "list"
    /\ Len(last_http.content[1].actions.items) = 1
    /\ an_out[1].result.actions = << <<"action", 1>>, <<"filler">>, <<"filler">> >>

\* C17: a result analyze returns has a priority among high, medium, low:
\* the provider's when it is one of them, "medium" when the object has
\* another one or none.
C17_Priority ==
    (prog = "analyze" /\ an_pc = "returned") =>
        /\ an_out[1].result.priority \in {"high", "medium", "low"}
        /\ last_http.content[1].json = "object" =>
              an_out[1].result.priority =
                 IF last_http.content[1].priority \in {"high", "medium", "low"}
                 THEN last_http.content[1].priority ELSE "medium"

\* the priority "urgent" came back as "medium"
C17_Witness ==
    /\ prog = "analyze" /\ an_pc = "returned"
    /\ last_http.content[1].json = "object"
    /\ last_http.content[1].priority = "urgent"
    /\ an_out[1].result.priority = "medium"

(***************************************************************************)
(* analyze_expectations: the world around a run.                           *)
(***************************************************************************)
\* time passes
tick ==
    /\ prog = "expectations"
    /\ now < MaxTime
    /\ now' = now + 1
    /\ UNCHANGED <<prog, pr_vars, ru_vars, lost_vars, sn_vars, rt_vars, lc_vars, cl_vars, wr_vars, ov_vars, bf_vars, an_vars, store, fs, run_vars, obs_vars>>

\* the collector stores a message (Database.save_message); text says whether
\* its text is non-empty
save_message ==
    /\ prog = "expectations"
    /\ Cardinality(store) < MaxMsgs
    /\ \E c \in Chats, text \in BOOLEAN :
        /\ [chat_id |-> c, timestamp |-> now, text |-> text] \notin store
        /\ store' = store \cup {[chat_id |-> c, timestamp |-> now, text |-> text]}
        /\ unseen' = IF text /\ pc[c] \in {"wait", "call"}
                      THEN unseen \cup {[chat_id |-> c, timestamp |-> now, text |-> text]}
                      ELSE unseen
    /\ new_msgs' = TRUE
    /\ UNCHANGED <<prog, pr_vars, ru_vars, sn_vars, rt_vars, lc_vars, cl_vars, wr_vars, ov_vars, bf_vars, an_vars, now, fs, run_vars>>
    /\ UNCHANGED <<disk_before, gate_skipped, fetched, called, settled, runs>>

(***************************************************************************)
(* The queries and helpers of analyze_expectations.                        *)
(***************************************************************************)
Max(S) == CHOOSE x \in S : \A y \in S : y <= x

\* datetime.isoformat: the string stored in the document
isoformat(t) == <<"iso", t>>

\* _parse_dt: None for a missing value, the datetime for an isoformat string
parse_dt(value) == IF value = None THEN None ELSE Some(value[2])

\* load_cache: the empty default when the file is missing or does not parse
load_cache(file) ==
    IF ~file.exists THEN EmptyDoc
    ELSE IF ~file.complete THEN EmptyDoc      \* json.JSONDecodeError
    ELSE file.doc

\* _fetch_active_chats: the chats with a message at or after active_since,
\* with MAX(timestamp)
active_rows(table, active_since) ==
    { [chat_id |-> c,
       last_message_at |-> Max({ m.timestamp : m \in { x \in table :
                                   x.chat_id = c /\ x.timestamp >= active_since } })]
      : c \in { m.chat_id : m \in { x \in table : x.timestamp >= active_since } } }

\* ORDER BY MAX(m.timestamp) DESC: any order of the rows that is descending
\* (the order of rows with equal timestamps is not defined by the query)
fetch_active_chats(table, active_since) ==
    LET rows == active_rows(table, active_since)
        n == Cardinality(rows)
    IN  { s \in [1..n -> rows] :
            /\ \A i, j \in 1..n : i # j => s[i] # s[j]
            /\ \A i, j \in 1..n : i < j => s[i].last_message_at >= s[j].last_message_at }

\* the limit not applied
apply_limit_ignored(rows, limit) == rows

\* "if limit: active_chats = active_chats[:limit]"
apply_limit(rows, limit) ==
    IF limit = None \/ limit[1] = 0 THEN rows
    ELSE SubSeq(rows, 1, IF limit[1] < Len(rows) THEN limit[1] ELSE Len(rows))

\* _fetch_context: the messages of the chat since context_since that have a
\* text (the LIMIT keeps the most recent max_messages >= 1 of them)
fetch_context(table, chat_id, since) ==
    { m \in table : m.chat_id = chat_id /\ m.timestamp >= since /\ m.text }

\* the gate with "<" in the place of "<="
should_skip_strict(force_, chats_cache, chat_id, last_message_at) ==
    /\ ~force_
    /\ chat_id \in DOMAIN chats_cache
    /\ last_message_at < chats_cache[chat_id].last_analyzed_at[2]

\* line 305: "not force and cached_last and last_message_at and
\* last_message_at <= cached_last"; cached is chats_cache.get(chat_key, {}),
\* and last_message_at, the MAX(timestamp) of a group, is never null
should_skip(force_, chats_cache, chat_id, last_message_at) ==
    LET cached_last == IF chat_id \in DOMAIN chats_cache
                       THEN parse_dt(chats_cache[chat_id].last_analyzed_at)
                       ELSE None
    IN  /\ ~force_
        /\ cached_last # None
        /\ last_message_at <= cached_last[1]

\* the skip branch stamping the analysis with the time of the last message
skip_entry_restamped(cached, last_message_at) ==
    [cached EXCEPT !.last_message_at = isoformat(last_message_at),
                   !.last_analyzed_at = isoformat(last_message_at),
                   !.skipped = TRUE]

\* lines 306-307: what the skip branch changes in the entry
skip_entry(cached, last_message_at) ==
    [cached EXCEPT !.last_message_at = isoformat(last_message_at),
                   !.skipped = TRUE]

\* a placeholder with two actions
PlaceholderActionsTwo == << <<"placeholder", 1>>, <<"placeholder", 2>> >>

PlaceholderActions == << <<"placeholder", 1>>, <<"placeholder", 2>>, <<"placeholder", 3>> >>

\* chats_cache[chat_key] = cached
put(chats_cache, chat_id, entry) ==
    [c \in DOMAIN chats_cache \cup {chat_id} |->
        IF c = chat_id THEN entry ELSE chats_cache[c]]

Row(chat_id) == CHOOSE r \in { active_chats[i] : i \in 1..Len(active_chats) } :
                    r.chat_id = chat_id

Scanned == { active_chats[i].chat_id : i \in 1..Len(active_chats) }

\* the replies the provider gives during a run
RunContents ==
    { [fence |-> FALSE, json |-> "object",
       actions |-> [kind |-> "list", items |-> [i \in 1..3 |-> ProviderAction(i)]],
       priority |-> "high"],
      [fence |-> FALSE, json |-> "array", actions |-> MissingActions,
       priority |-> "missing"] }

\* how a call of analyzer.analyze ends: with the parsed reply, or with the
\* exception of the last post
analyze_outcomes ==
    { parse_content(c) : c \in RunContents }
    \cup { [raised |-> e] : e \in TransportErrors }

(***************************************************************************)
(* analyze_expectations, lines 277-288 and 354: the arguments, the cache,  *)
(* the active chats, one task per chat.  DEEPSEEK_API_KEY is set, so the   *)
(* check of line 274 passes.                                               *)
(***************************************************************************)
Ended == {"idle", "done", "failed", "crashed"}

ArgSets ==
    [force : BOOLEAN, dry_run : BOOLEAN,
     limit : {None, Some(1)},
     concurrency : 1..MaxConcurrency]

start_run ==
    /\ prog = "expectations"
    /\ phase \in Ended
    /\ runs < MaxRuns
    /\ \E a \in ArgSets :
        /\ args' = a
        /\ runs' = runs + 1
        /\ settled' = (phase = "done" /\ ~args.dry_run /\ args.limit = None /\ ~new_msgs)
        /\ new_msgs' = FALSE
        /\ gate_skipped' = {}
        /\ fetched' = {}
        /\ called' = {}
        /\ disk_before' = fs.cache
        /\ analyzed' = 0
        /\ skipped' = 0
        /\ cache' = load_cache(fs.cache)
        /\ context_since' = now - ContextWindow
        /\ \E rows \in fetch_active_chats(store, now - ActiveWindow) :
            /\ active_chats' = apply_limit(rows, a.limit)
            /\ pc' = [c \in Chats |->
                        IF \E i \in 1..Len(apply_limit(rows, a.limit)) :
                              apply_limit(rows, a.limit)[i].chat_id = c
                        THEN "gate" ELSE "idle"]
        /\ semaphore' = a.concurrency
        /\ phase' = "tasks"
    /\ UNCHANGED <<prog, pr_vars, ru_vars, lost_vars, sn_vars, rt_vars, lc_vars, cl_vars, wr_vars, ov_vars, bf_vars, an_vars, world_vars>>


(***************************************************************************)
(* process_chat, one task per active chat.  A task runs from one await to  *)
(* the next without interruption.                                          *)
(***************************************************************************)
TasksRun == phase = "tasks"

\* lines 296-312: the staleness gate, up to the await of _fetch_context
gate(c) ==
    /\ prog = "expectations"
    /\ TasksRun
    /\ pc[c] = "gate"
    /\ LET last_message_at == Row(c).last_message_at
       IN  IF should_skip(args.force, cache.chats, c, last_message_at)
           THEN /\ cache' = [cache EXCEPT !.chats =
                       put(@, c, skip_entry(@[c], last_message_at))]
                /\ skipped' = skipped + 1
                /\ gate_skipped' = gate_skipped \cup {c}
                /\ pc' = [pc EXCEPT ![c] = "done"]
                /\ UNCHANGED fetched
           ELSE /\ pc' = [pc EXCEPT ![c] = "fetch"]
                /\ fetched' = fetched \cup {c}
                /\ UNCHANGED <<cache, skipped, gate_skipped>>
    /\ UNCHANGED <<prog, pr_vars, ru_vars, lost_vars, sn_vars, rt_vars, lc_vars, cl_vars, wr_vars, ov_vars, bf_vars, an_vars, world_vars>>
    /\ UNCHANGED <<phase, args, context_since, active_chats, semaphore, analyzed>>
    /\ UNCHANGED <<disk_before, called, settled, new_msgs, runs>>

\* a semaphore that never lets a task in
can_acquire_never(value) == FALSE


\* a semaphore that never makes a task wait
can_acquire_always(value) == TRUE

\* "async with semaphore": the permit is taken at once when one is free
can_acquire(value) == value > 0

\* lines 312-332: _fetch_context returns; an empty context gives the
\* placeholder entry, another one goes on to the semaphore and the call
fetch_return(c) ==
    /\ prog = "expectations"
    /\ TasksRun
    /\ pc[c] = "fetch"
    /\ unseen' = unseen \ fetch_context(store, c, context_since)
    /\ LET last_message_at == Row(c).last_message_at
           context_messages == fetch_context(store, c, context_since)
       IN  IF context_messages = {}
           THEN /\ cache' = [cache EXCEPT !.chats =
                       put(@, c, [last_message_at |-> isoformat(last_message_at),
                                  last_analyzed_at |-> isoformat(now),
                                  priority |-> "low",
                                  actions |-> PlaceholderActions,
                                  skipped |-> FALSE])]
                /\ analyzed' = analyzed + 1
                /\ pc' = [pc EXCEPT ![c] = "done"]
                /\ UNCHANGED <<semaphore, called>>
           ELSE IF can_acquire(semaphore)
           THEN /\ semaphore' = semaphore - 1
                /\ called' = called \cup {c}
                /\ pc' = [pc EXCEPT ![c] = "call"]
                /\ UNCHANGED <<cache, analyzed>>
           ELSE /\ pc' = [pc EXCEPT ![c] = "wait"]
                /\ UNCHANGED <<cache, analyzed, semaphore, called>>
    /\ UNCHANGED <<prog, pr_vars, ru_vars, sn_vars, rt_vars, lc_vars, cl_vars, wr_vars, ov_vars, bf_vars, an_vars, world_vars>>
    /\ UNCHANGED <<phase, args, context_since, active_chats, skipped>>
    /\ UNCHANGED <<disk_before, gate_skipped, fetched, settled, new_msgs, runs>>

\* _fetch_context raises (the data source is unavailable)
fetch_raise(c) ==
    /\ prog = "expectations"
    /\ TasksRun
    /\ pc[c] = "fetch"
    /\ pc' = [pc EXCEPT ![c] = "failed"]
    /\ UNCHANGED <<prog, pr_vars, ru_vars, lost_vars, sn_vars, rt_vars, lc_vars, cl_vars, wr_vars, ov_vars, bf_vars, an_vars, world_vars, obs_vars>>
    /\ UNCHANGED <<phase, args, context_since, cache, active_chats, semaphore,
                   analyzed, skipped>>

\* line 331: a waiting task gets a permit and calls analyzer.analyze
acquire(c) ==
    /\ prog = "expectations"
    /\ TasksRun
    /\ pc[c] = "wait"
    /\ can_acquire(semaphore)
    /\ semaphore' = semaphore - 1
    /\ called' = called \cup {c}
    /\ pc' = [pc EXCEPT ![c] = "call"]
    /\ UNCHANGED <<prog, pr_vars, ru_vars, lost_vars, sn_vars, rt_vars, lc_vars, cl_vars, wr_vars, ov_vars, bf_vars, an_vars, world_vars>>
    /\ UNCHANGED <<phase, args, context_since, cache, active_chats, analyzed, skipped>>
    /\ UNCHANGED <<disk_before, gate_skipped, fetched, settled, new_msgs, runs>>

\* lines 332-352: analyzer.analyze ends, the permit is given back, and the
\* entry is updated when analyze returned a result
call_return(c) ==
    /\ prog = "expectations"
    /\ TasksRun
    /\ pc[c] = "call"
    /\ semaphore' = semaphore + 1
    /\ \E o \in analyze_outcomes :
        IF o.raised # ""
        THEN /\ pc' = [pc EXCEPT ![c] = "failed"]
             /\ UNCHANGED <<cache, analyzed>>
        ELSE /\ cache' = [cache EXCEPT !.chats =
                    put(@, c, [last_message_at |-> isoformat(Row(c).last_message_at),
                               last_analyzed_at |-> isoformat(now),
                               priority |-> o.result.priority,
                               actions |-> first3(o.result.actions),
                               skipped |-> FALSE])]
             /\ analyzed' = analyzed + 1
             /\ pc' = [pc EXCEPT ![c] = "done"]
    /\ UNCHANGED <<prog, pr_vars, ru_vars, lost_vars, sn_vars, rt_vars, lc_vars, cl_vars, wr_vars, ov_vars, bf_vars, an_vars, world_vars, obs_vars>>
    /\ UNCHANGED <<phase, args, context_since, active_chats, skipped>>


(***************************************************************************)
(* analyze_expectations, lines 355-368: gather, the statistics, and        *)
(* write_cache.                                                            *)
(***************************************************************************)
\* the locals of analyze_expectations are gone (it raised, or the process died)
forget ==
    /\ context_since' = 0
    /\ cache' = EmptyDoc
    /\ active_chats' = << >>
    /\ pc' = [c \in Chats |-> "idle"]
    /\ semaphore' = 0
    /\ analyzed' = 0
    /\ skipped' = 0
    /\ gate_skipped' = {}
    /\ fetched' = {}
    /\ called' = {}

\* asyncio.gather(*tasks) without return_exceptions: the first exception of
\* a task is raised in analyze_expectations, which ends without writing
gather_raise ==
    /\ prog = "expectations"
    /\ phase = "tasks"
    /\ \E c \in Scanned : pc[c] = "failed"
    /\ phase' = "failed"
    /\ forget
    /\ UNCHANGED <<prog, pr_vars, ru_vars, lost_vars, sn_vars, rt_vars, lc_vars, cl_vars, wr_vars, ov_vars, bf_vars, an_vars, world_vars, args, disk_before, settled, new_msgs, runs>>

\* gather returns when every task has returned; lines 357-365
gather_return ==
    /\ prog = "expectations"
    /\ phase = "tasks"
    /\ \A c \in Scanned : pc[c] = "done"
    /\ cache' = [cache EXCEPT
                   !.updated_at = isoformat(now),
                   !.stats = Some([active_chats |-> Len(active_chats),
                                   analyzed |-> analyzed,
                                   skipped |-> skipped])]
    /\ phase' = IF args.dry_run THEN "done" ELSE "write_cache"
    /\ UNCHANGED <<prog, pr_vars, ru_vars, lost_vars, sn_vars, rt_vars, lc_vars, cl_vars, wr_vars, ov_vars, bf_vars, an_vars, world_vars, obs_vars>>
    /\ UNCHANGED <<args, context_since, active_chats, pc, semaphore, analyzed, skipped>>

CACHE_PATH == "cache"

\* write_cache writing the document straight to CACHE_PATH
tmp_path_is_cache == CACHE_PATH

\* CACHE_PATH.with_suffix(".json.tmp")
tmp_path == "tmp"

\* tmp_path.write_text(...): the file is opened and truncated, and the text
\* is on its way
write_text_open ==
    /\ prog = "expectations"
    /\ phase = "write_cache"
    /\ fs' = [fs EXCEPT ![tmp_path] = [exists |-> TRUE, complete |-> FALSE, doc |-> cache]]
    /\ phase' = "write_text"
    /\ UNCHANGED <<prog, pr_vars, ru_vars, lost_vars, sn_vars, rt_vars, lc_vars, cl_vars, wr_vars, ov_vars, bf_vars, an_vars, now, store, obs_vars>>
    /\ UNCHANGED <<args, context_since, cache, active_chats, pc, semaphore,
                   analyzed, skipped>>

\* write_text returns: the whole text is in the file
write_text_close ==
    /\ prog = "expectations"
    /\ phase = "write_text"
    /\ fs' = [fs EXCEPT ![tmp_path].complete = TRUE]
    /\ phase' = "replace"
    /\ UNCHANGED <<prog, pr_vars, ru_vars, lost_vars, sn_vars, rt_vars, lc_vars, cl_vars, wr_vars, ov_vars, bf_vars, an_vars, now, store, obs_vars>>
    /\ UNCHANGED <<args, context_since, cache, active_chats, pc, semaphore,
                   analyzed, skipped>>

\* os.replace(tmp_path, CACHE_PATH), and analyze_expectations returns
os_replace ==
    /\ prog = "expectations"
    /\ phase = "replace"
    /\ fs' = IF tmp_path = CACHE_PATH THEN fs
             ELSE [fs EXCEPT ![CACHE_PATH] = fs[tmp_path], ![tmp_path] = NoFile]
    /\ phase' = "done"
    /\ UNCHANGED <<prog, pr_vars, ru_vars, lost_vars, sn_vars, rt_vars, lc_vars, cl_vars, wr_vars, ov_vars, bf_vars, an_vars, now, store, obs_vars>>
    /\ UNCHANGED <<args, context_since, cache, active_chats, pc, semaphore,
                   analyzed, skipped>>

\* the process is killed inside write_cache; the files stay as they are
crash ==
    /\ prog = "expectations"
    /\ phase \in {"write_cache", "write_text", "replace"}
    /\ phase' = "crashed"
    /\ forget
    /\ UNCHANGED <<prog, pr_vars, ru_vars, lost_vars, sn_vars, rt_vars, lc_vars, cl_vars, wr_vars, ov_vars, bf_vars, an_vars, world_vars, args, disk_before, settled, new_msgs, runs>>

ExInit ==
    /\ prog = "expectations"
    /\ AnIdle
    /\ ExIdle
    /\ BfIdle
    /\ ClIdle
    /\ WrIdle
    /\ OvIdle
    /\ PrIdle
    /\ RuIdle
    /\ LostIdle
    /\ SnIdle
    /\ RtIdle
    /\ LcIdle

ExNext ==
    \/ tick
    \/ save_message
    \/ start_run
    \/ \E c \in Chats : gate(c)
    \/ \E c \in Chats : fetch_return(c)
    \/ \E c \in Chats : fetch_raise(c)
    \/ \E c \in Chats : acquire(c)
    \/ \E c \in Chats : call_return(c)
    \/ gather_raise
    \/ gather_return
    \/ write_text_open
    \/ write_text_close
    \/ os_replace
    \/ crash

Spec == ExInit /\ [][ExNext]_vars


(***************************************************************************)
(* Properties of analyze_expectations.                                     *)
(***************************************************************************)
\* the run has its locals: the tasks run, or gather has returned
Live == phase \in {"tasks", "write_cache", "write_text", "replace", "done"}

\* the document the run started from
Loaded == load_cache(disk_before)

PastGate == { c \in Scanned : pc[c] # "gate" }

\* C1: a conversation is stopped by the staleness gate (no context fetch, no
\* classifier call, counted in skipped) exactly when force is false, the
\* loaded cache has an entry with last_analyzed_at for it and its
\* last_message_at is not after that; every other conversation goes on to
\* the context fetch and, once its task returns, is counted in analyzed.
C1_StalenessGate ==
    (prog = "expectations" /\ Live) =>
        /\ \A c \in PastGate :
            /\ c \in gate_skipped <=>
                  /\ ~args.force
                  /\ c \in DOMAIN Loaded.chats
                  /\ Row(c).last_message_at <= Loaded.chats[c].last_analyzed_at[2]
            /\ c \in gate_skipped => c \notin fetched /\ c \notin called /\ pc[c] = "done"
            /\ c \notin gate_skipped => c \in fetched
        /\ skipped = Cardinality(gate_skipped)
        /\ analyzed = Cardinality({ c \in PastGate \ gate_skipped : pc[c] = "done" })

\* a run without force reanalyzes a conversation it has an entry for, because
\* a newer message came, and has skipped nothing it should not
C1_Witness ==
    /\ prog = "expectations" /\ Live /\ ~args.force
    /\ \E c \in PastGate :
        /\ c \in DOMAIN Loaded.chats
        /\ Row(c).last_message_at > Loaded.chats[c].last_analyzed_at[2]
        /\ pc[c] = "done"
        /\ c \in called

\* the second of two runs: the run before had no limit and wrote the cache,
\* no message was stored since that run began, and this run has returned
SecondRun == prog = "expectations" /\ phase = "done" /\ settled /\ ~new_msgs /\ ~args.force

\* C2 as stated: the second run analyzes nothing, skips every active
\* conversation and leaves the document as it was but for updated_at (here:
\* leaves every entry as it was, the statistics of the run left aside too).
C2_Original ==
    SecondRun =>
        /\ analyzed = 0
        /\ skipped = Len(active_chats)
        /\ fs.cache.doc.chats = disk_before.doc.chats

\* C2 amended: the second run analyzes nothing and skips every active
\* conversation; the document it returns (and writes, unless dry_run) keeps
\* every entry, with the skipped flag of the active ones set, and carries the
\* statistics of this run.
C2_Idempotent ==
    SecondRun =>
        /\ analyzed = 0
        /\ skipped = Len(active_chats)
        /\ called = {} /\ fetched = {}
        /\ DOMAIN cache.chats = DOMAIN disk_before.doc.chats
        /\ \A c \in DOMAIN cache.chats :
              cache.chats[c] = IF c \in Scanned
                               THEN [disk_before.doc.chats[c] EXCEPT !.skipped = TRUE]
                               ELSE disk_before.doc.chats[c]
        /\ cache.stats = Some([active_chats |-> Len(active_chats), analyzed |-> 0,
                               skipped |-> Len(active_chats)])
        /\ fs.cache.doc = IF args.dry_run THEN disk_before.doc ELSE cache

\* the second run has skipped a conversation and written the document
C2_Witness ==
    /\ SecondRun /\ ~args.dry_run
    /\ skipped > 0
    /\ fs.cache.doc = cache

\* C4 as stated: a task that failed does not end the run; the run goes on to
\* gather the other conversations and to write the cache.
C4_FailureIsolated ==
    [][(prog = "expectations" /\ phase = "tasks" /\ \E c \in Scanned : pc[c] = "failed")
          => phase' \in {"tasks", "write_cache", "done"}]_vars

\* C6: the file at CACHE_PATH always holds a complete document: the one the
\* run started from until os.replace, the new one after it, also when the
\* process is killed inside write_cache; load_cache never meets a torn text.
C6_AtomicCache ==
    prog = "expectations" =>
        /\ fs[CACHE_PATH].exists => fs[CACHE_PATH].complete
        /\ phase # "done" => fs[CACHE_PATH] = disk_before
        /\ phase = "done" =>
              fs[CACHE_PATH] = IF args.dry_run THEN disk_before
                               ELSE [exists |-> TRUE, complete |-> TRUE, doc |-> cache]
        /\ load_cache(fs[CACHE_PATH]) = fs[CACHE_PATH].doc

\* killed between the write of the temporary file and the rename, with an
\* earlier document at CACHE_PATH
C6_Witness ==
    /\ prog = "expectations" /\ phase = "crashed"
    /\ fs["tmp"].exists /\ fs["tmp"].complete
    /\ fs["cache"].exists /\ fs["cache"].complete
    /\ fs["cache"].doc # fs["tmp"].doc

\* C10 as stated: a dry run calls the provider for no conversation and
\* leaves the files alone.
C10_DryRun ==
    (prog = "expectations" /\ Live /\ args.dry_run) =>
        /\ called = {}
        /\ fs[CACHE_PATH] = disk_before

(***************************************************************************)
(* scripts/analyze_messages.py: the tables.                                *)
(*   messages[id]          [timestamp, text, sender]: the row of messages  *)
(*                         joined with users and user_roles; text is       *)
(*                         "NULL", "" or a text; sender is "client",       *)
(*                         "bot", "staff" or "manager"                     *)
(*   message_analysis[id]  the rows with message_id = id, oldest first     *)
(*   a MessageAnalysis     [message_id, intent, sentiment, confidence,     *)
(*                         tokens_used], confidence in tenths (entities,   *)
(*                         model_used and processing_time_ms are copied    *)
(*                         along and not modelled)                         *)
(***************************************************************************)
\* the rows a table of the model is made of: a client's text at any time,
\* and at the start of the window one row for each way of not being eligible
MessageRows ==
    [timestamp : 0..MaxTs, text : {"hi"}, sender : {"client"}]
    \cup [timestamp : {1}, text : {"NULL", ""}, sender : {"client"}]
    \cup [timestamp : {1}, text : {"hi"}, sender : {"bot", "staff", "manager"}]

\* a row of message_analysis written by an earlier run
EarlierAnalysis(message_id) ==
    [message_id |-> message_id, intent |-> "question", sentiment |-> "neutral",
     confidence |-> 8, tokens_used |-> 30]

\* ORDER BY m.timestamp ASC, m.id ASC
precedes(a, b) ==
    \/ a.timestamp < b.timestamp
    \/ a.timestamp = b.timestamp /\ a.id < b.id

\* the cursor condition letting the rows of the cursor's timestamp in again
after_cursor_inclusive(row, ts, id) == row.timestamp >= ts


\* the cursor condition with the timestamp alone
after_cursor_by_timestamp(row, ts, id) == row.timestamp > ts

\* "m.timestamp > $3 OR (m.timestamp = $3 AND m.id > $4)"
after_cursor(row, ts, id) ==
    \/ row.timestamp > ts
    \/ row.timestamp = ts /\ row.id > id

\* the WHERE clause of fetch_batch without the cursor
where_eligible(table, analyses, id, since, until) ==
    /\ table[id].timestamp >= since
    /\ table[id].timestamp <= until
    /\ table[id].text # "NULL"
    /\ table[id].text # ""
    /\ analyses[id] = << >>
    /\ table[id].sender = "client"

\* fetch_batch: the first "limit" rows of the query, as dicts
fetch_batch(table, analyses, since, until, ts, id, limit) ==
    LET row(m) == [id |-> m, text |-> table[m].text, timestamp |-> table[m].timestamp]
        hits == { row(m) : m \in { x \in DOMAIN table :
                                     /\ where_eligible(table, analyses, x, since, until)
                                     /\ after_cursor(row(x), ts, id) } }
        n == Cardinality(hits)
        ordered == CHOOSE s \in [1..n -> hits] :
                       \A i, j \in 1..n : i < j => precedes(s[i], s[j])
    IN  SubSeq(ordered, 1, IF limit < n THEN limit ELSE n)

\* analysis_exists
analysis_exists(analyses, message_id) == analyses[message_id] # << >>

(***************************************************************************)
(* IntentClassifier.classify.  A reply of the provider is                  *)
(*   [error, content, tokens]: error is "" for a response; content is      *)
(*   [fence, json, intent, sentiment, confidence], a field of an object    *)
(*   being << >> when missing and <<value>> when present.                  *)
(***************************************************************************)
NoField == << >>

ClassifyContents ==
    { [fence |-> TRUE, json |-> "object", intent |-> <<"order">>,
       sentiment |-> <<"positive">>, confidence |-> <<9>>],
      [fence |-> FALSE, json |-> "object", intent |-> NoField,
       sentiment |-> NoField, confidence |-> NoField],
      [fence |-> FALSE, json |-> "invalid", intent |-> NoField,
       sentiment |-> NoField, confidence |-> NoField],
      [fence |-> FALSE, json |-> "array", intent |-> NoField,
       sentiment |-> NoField, confidence |-> NoField] }

\* a 401 of raise_for_status, and a timeout
ClassifyErrors == {"HTTPStatusError", "ReadTimeout"}

ClassifyReplies ==
    [error : {""}, content : ClassifyContents, tokens : {42}]
    \cup [error : ClassifyErrors, content : {None}, tokens : {0}]

\* content.replace("```json", "").replace("```", "").strip()
clean_content(content) == [content EXCEPT !.fence = FALSE]

\* dict.get(key, default)
get(field, default) == IF field = NoField THEN default ELSE field[1]

\* the except branch with the default confidence of the try branch
failed_analysis_half(message_id) ==
    [message_id |-> message_id, intent |-> "unknown", sentiment |-> "unknown",
     confidence |-> 5, tokens_used |-> 0]

\* the MessageAnalysis of "except Exception" (lines 190-203)
failed_analysis(message_id) ==
    [message_id |-> message_id, intent |-> "unknown", sentiment |-> "unknown",
     confidence |-> 0, tokens_used |-> 0]

\* lines 163-188: the reply parsed and made into a MessageAnalysis; the
\* .get of a value that is not a dict raises AttributeError
parse_reply(message_id, reply) ==
    LET parsed == json_loads(clean_content(reply.content))
        result == IF parsed.raised # ""
                  THEN [json |-> "object", intent |-> <<"unknown">>,
                        sentiment |-> <<"unknown">>, confidence |-> <<0>>]
                  ELSE parsed.value
    IN  IF result.json # "object"
        THEN [raised |-> "AttributeError"]
        ELSE [raised |-> "",
              value |-> [message_id |-> message_id,
                         intent |-> get(result.intent, "unknown"),
                         sentiment |-> get(result.sentiment, "unknown"),
                         confidence |-> get(result.confidence, 5),
                         tokens_used |-> reply.tokens]]

\* classify: never raises; the reply is the outcome of the provider call
classify(message_id, reply) ==
    IF reply.error # "" THEN failed_analysis(message_id)
    ELSE LET r == parse_reply(message_id, reply)
         IN  IF r.raised # "" THEN failed_analysis(message_id) ELSE r.value

\* save_analysis: a plain INSERT
save_analysis(analyses, row) ==
    [analyses EXCEPT ![row.message_id] = Append(@, row)]

(***************************************************************************)
(* scripts/analyze_messages.py main.  DEEPSEEK_API_KEY is set or the run   *)
(* is a dry run, so the check of line 139 passes.                          *)
(***************************************************************************)
BfArgSets ==
    [since : {1}, until : {MaxTs - 1}, batch_size : 1..MaxBatch,
     concurrency : 1..MaxConcurrency, dry_run : BOOLEAN]

\* main up to the loop: the cursor starts at (since, 0)
BfInit ==
    /\ prog = "backfill"
    /\ AnIdle
    /\ ExIdle
    /\ ClIdle
    /\ WrIdle
    /\ OvIdle
    /\ PrIdle
    /\ RuIdle
    /\ LostIdle
    /\ SnIdle
    /\ RtIdle
    /\ LcIdle
    /\ messages \in [Msgs -> MessageRows]
    /\ \E done \in {{}} \cup { {m} : m \in Msgs } :
          message_analysis = [m \in Msgs |-> IF m \in done
                                             THEN <<EarlierAnalysis(m)>> ELSE << >>]
    /\ bf_args \in BfArgSets
    /\ bf_phase = "fetch"
    /\ last_ts = bf_args.since
    /\ last_id = 0
    /\ batch = << >>
    /\ bf_pc = [m \in Msgs |-> "idle"]
    /\ bf_semaphore = bf_args.concurrency
    /\ analysis = [m \in Msgs |-> None]
    /\ results = [m \in Msgs |-> None]
    /\ total_processed = 0
    /\ total_saved = 0
    /\ intent_counts = << >>
    /\ eligible = { m \in Msgs : where_eligible(messages, message_analysis, m,
                                                bf_args.since, bf_args.until) }
    /\ visited = << >>
    /\ failed_calls = {}

BatchIds == { batch[i].id : i \in 1..Len(batch) }

\* "batch = await fetch_batch(...)", "if not batch: break", and the tasks
\* of asyncio.gather
bf_fetch ==
    /\ prog = "backfill" /\ bf_phase = "fetch"
    /\ batch' = fetch_batch(messages, message_analysis, bf_args.since, bf_args.until,
                            last_ts, last_id, bf_args.batch_size)
    /\ IF batch' = << >>
       THEN /\ bf_phase' = "done"
            /\ UNCHANGED <<bf_pc, visited>>
       ELSE /\ bf_phase' = "tasks"
            /\ bf_pc' = [m \in Msgs |->
                           IF \E i \in 1..Len(batch') : batch'[i].id = m
                           THEN "start" ELSE "idle"]
            /\ visited' = visited \o [i \in 1..Len(batch') |-> batch'[i].id]
    /\ results' = [m \in Msgs |-> None]
    /\ UNCHANGED <<prog, pr_vars, ru_vars, lost_vars, sn_vars, rt_vars, lc_vars, cl_vars, wr_vars, ov_vars, an_vars, ex_vars, table_vars, analysis>>
    /\ UNCHANGED <<bf_args, last_ts, last_id, bf_semaphore, total_processed,
                   total_saved, intent_counts, eligible, failed_calls>>

\* process_message: "async with semaphore", then the dry run's return or
\* the call of analysis_exists
bf_acquire(m) ==
    /\ prog = "backfill" /\ bf_phase = "tasks"
    /\ bf_pc[m] = "start"
    /\ can_acquire(bf_semaphore)
    /\ IF bf_args.dry_run
       THEN /\ results' = [results EXCEPT ![m] = Some(<<TRUE, "dry_run">>)]
            /\ bf_pc' = [bf_pc EXCEPT ![m] = "done"]
            /\ UNCHANGED bf_semaphore
       ELSE /\ bf_semaphore' = bf_semaphore - 1
            /\ bf_pc' = [bf_pc EXCEPT ![m] = "exists"]
            /\ UNCHANGED results
    /\ UNCHANGED <<prog, pr_vars, ru_vars, lost_vars, sn_vars, rt_vars, lc_vars, cl_vars, wr_vars, ov_vars, an_vars, ex_vars, table_vars, seen_vars>>
    /\ UNCHANGED <<bf_phase, bf_args, last_ts, last_id, batch, analysis,
                   total_processed, total_saved, intent_counts>>

\* analysis_exists returns: "skipped_exists", or the call of classify
bf_exists_return(m) ==
    /\ prog = "backfill" /\ bf_phase = "tasks"
    /\ bf_pc[m] = "exists"
    /\ IF analysis_exists(message_analysis, m)
       THEN /\ results' = [results EXCEPT ![m] = Some(<<FALSE, "skipped_exists">>)]
            /\ bf_pc' = [bf_pc EXCEPT ![m] = "done"]
            /\ bf_semaphore' = bf_semaphore + 1
       ELSE /\ bf_pc' = [bf_pc EXCEPT ![m] = "classify"]
            /\ UNCHANGED <<results, bf_semaphore>>
    /\ UNCHANGED <<prog, pr_vars, ru_vars, lost_vars, sn_vars, rt_vars, lc_vars, cl_vars, wr_vars, ov_vars, an_vars, ex_vars, table_vars, seen_vars>>
    /\ UNCHANGED <<bf_phase, bf_args, last_ts, last_id, batch, analysis,
                   total_processed, total_saved, intent_counts>>

\* classify returns, whatever the provider did; save_analysis is called
bf_classify_return(m) ==
    /\ prog = "backfill" /\ bf_phase = "tasks"
    /\ bf_pc[m] = "classify"
    /\ \E reply \in ClassifyReplies :
          /\ analysis' = [analysis EXCEPT ![m] = Some(classify(m, reply))]
          /\ failed_calls' = IF reply.error # "" THEN failed_calls \cup {m}
                             ELSE failed_calls
    /\ bf_pc' = [bf_pc EXCEPT ![m] = "save"]
    /\ UNCHANGED <<prog, pr_vars, ru_vars, lost_vars, sn_vars, rt_vars, lc_vars, cl_vars, wr_vars, ov_vars, an_vars, ex_vars, table_vars, eligible, visited>>
    /\ UNCHANGED <<bf_phase, bf_args, last_ts, last_id, batch, bf_semaphore, results,
                   total_processed, total_saved, intent_counts>>

\* save_analysis returns: the row is in the table, the task returns
bf_save_return(m) ==
    /\ prog = "backfill" /\ bf_phase = "tasks"
    /\ bf_pc[m] = "save"
    /\ message_analysis' = save_analysis(message_analysis, analysis[m][1])
    /\ results' = [results EXCEPT ![m] = Some(<<TRUE, analysis[m][1].intent>>)]
    /\ bf_pc' = [bf_pc EXCEPT ![m] = "done"]
    /\ bf_semaphore' = bf_semaphore + 1
    /\ UNCHANGED <<prog, pr_vars, ru_vars, lost_vars, sn_vars, rt_vars, lc_vars, cl_vars, wr_vars, ov_vars, an_vars, ex_vars, messages, seen_vars>>
    /\ UNCHANGED <<bf_phase, bf_args, last_ts, last_id, batch, analysis,
                   total_processed, total_saved, intent_counts>>

\* intent_counts[intent] = intent_counts.get(intent, 0) + 1
count(counts, intent) ==
    [k \in DOMAIN counts \cup {intent} |->
        IF k = intent
        THEN (IF k \in DOMAIN counts THEN counts[k] ELSE 0) + 1
        ELSE counts[k]]

RECURSIVE count_all(_, _)
\* the loop over results, for the intents
count_all(counts, rs) ==
    IF rs = << >> THEN counts
    ELSE count_all(count(counts, Head(rs)[2]), Tail(rs))

\* gather returns: the counters, the cursor, and back to fetch_batch
bf_gather_return ==
    /\ prog = "backfill" /\ bf_phase = "tasks"
    /\ \A m \in BatchIds : bf_pc[m] = "done"
    /\ LET rs == [i \in 1..Len(batch) |-> results[batch[i].id][1]]
       IN  /\ total_processed' = total_processed + Len(rs)
           /\ total_saved' = total_saved + Cardinality({ i \in 1..Len(rs) : rs[i][1] })
           /\ intent_counts' = count_all(intent_counts, rs)
    /\ last_ts' = batch[Len(batch)].timestamp
    /\ last_id' = batch[Len(batch)].id
    /\ bf_pc' = [m \in Msgs |-> "idle"]
    /\ analysis' = [m \in Msgs |-> None]
    /\ bf_phase' = "fetch"
    /\ UNCHANGED <<prog, pr_vars, ru_vars, lost_vars, sn_vars, rt_vars, lc_vars, cl_vars, wr_vars, ov_vars, an_vars, ex_vars, table_vars, seen_vars>>
    /\ UNCHANGED <<bf_args, batch, bf_semaphore, results>>

BfNext ==
    \/ bf_fetch
    \/ \E m \in Msgs : bf_acquire(m)
    \/ \E m \in Msgs : bf_exists_return(m)
    \/ \E m \in Msgs : bf_classify_return(m)
    \/ \E m \in Msgs : bf_save_return(m)
    \/ bf_gather_return

SpecBackfill == BfInit /\ [][BfNext]_vars

(***************************************************************************)
(* Properties of the backfill.                                             *)
(***************************************************************************)
VisitedRow(i) == [id |-> visited[i], timestamp |-> messages[visited[i]].timestamp]

\* C5: the batches of a run visit eligible messages only, in strictly
\* increasing (timestamp, id) order, hence none twice; a batch never jumps
\* over an eligible message; and when the loop ends every eligible message
\* has been visited.
C5_CursorComplete ==
    prog = "backfill" =>
        /\ \A i \in 1..Len(visited) : visited[i] \in eligible
        /\ \A i, j \in 1..Len(visited) : i < j => precedes(VisitedRow(i), VisitedRow(j))
        /\ \A m \in eligible : \A i \in 1..Len(visited) :
              precedes([id |-> m, timestamp |-> messages[m].timestamp], VisitedRow(i))
                 => \E j \in 1..Len(visited) : visited[j] = m
        /\ bf_phase = "done" => { visited[i] : i \in 1..Len(visited) } = eligible

\* three eligible messages have been visited in batches of two, the last of
\* the first batch and the first of the second having the same timestamp,
\* and the ids not in the order of the timestamps
C5_Witness ==
    /\ prog = "backfill" /\ bf_phase = "done"
    /\ bf_args.batch_size = 2
    /\ Len(visited) = 3
    /\ messages[visited[2]].timestamp = messages[visited[3]].timestamp
    /\ visited[1] > visited[2]

Unknown(m) ==
    [message_id |-> m, intent |-> "unknown", sentiment |-> "unknown",
     confidence |-> 0, tokens_used |-> 0]

DispatchInit == ExInit \/ BfInit

DispatchNext == ExNext \/ BfNext

SpecDispatch == DispatchInit /\ [][DispatchNext]_vars

\* C3: the conversations whose analyzer.analyze call is in flight are never
\* more than the concurrency argument of the run, and the messages of a
\* batch whose classify call is in flight are never more than --concurrency.
C3_BoundedInFlight ==
    /\ prog = "expectations" =>
          Cardinality({ c \in Chats : pc[c] = "call" }) <= args.concurrency
    /\ prog = "backfill" =>
          Cardinality({ m \in Msgs : bf_pc[m] = "classify" }) <= bf_args.concurrency

\* with one permit and two tasks scheduled, one call is in flight and the
\* other task waits for the semaphore
C3_Witness ==
    \/ /\ prog = "expectations" /\ phase = "tasks" /\ args.concurrency = 1
       /\ \E c, d \in Chats : pc[c] = "call" /\ pc[d] = "wait"
    \/ /\ prog = "backfill" /\ bf_phase = "tasks" /\ bf_args.concurrency = 1
       /\ \E m, n \in Msgs : bf_pc[m] = "classify" /\ bf_pc[n] = "start"

(***************************************************************************)
(* Further properties of analyze_expectations.                             *)
(***************************************************************************)
\* C11: from one step to the next the document at CACHE_PATH keeps every
\* entry it has, and the last_analyzed_at of an entry never decreases (runs
\* one after the other, the clock never going back).
C11_Monotone ==
    [][prog = "expectations" =>
          \A c \in DOMAIN fs[CACHE_PATH].doc.chats :
             /\ c \in DOMAIN fs'[CACHE_PATH].doc.chats
             /\ fs'[CACHE_PATH].doc.chats[c].last_analyzed_at[2]
                   >= fs[CACHE_PATH].doc.chats[c].last_analyzed_at[2]]_vars

\* a second run has written a later last_analyzed_at over an entry of the
\* first, and has carried the entry of another chat over unchanged
C11_Witness ==
    /\ prog = "expectations" /\ phase = "done" /\ runs = 2 /\ ~args.dry_run
    /\ \E c \in DOMAIN disk_before.doc.chats :
          fs[CACHE_PATH].doc.chats[c].last_analyzed_at[2]
             > disk_before.doc.chats[c].last_analyzed_at[2]
    /\ \E c \in DOMAIN disk_before.doc.chats :
          fs[CACHE_PATH].doc.chats[c].last_analyzed_at
             = disk_before.doc.chats[c].last_analyzed_at

\* C14: when _fetch_context returns nothing for a chat that passed the
\* gate, the task ends there: no call of analyzer.analyze, an entry with
\* priority "low", 3 actions that are not the provider's, last_analyzed_at
\* stamped with the time of the step, and analyzed one more.
C14_Placeholder ==
    [][\A c \in Chats :
          (/\ prog = "expectations" /\ phase = "tasks"
           /\ pc[c] = "fetch" /\ pc'[c] \notin {"fetch", "failed", "idle"}
           /\ { m \in store : m.chat_id = c /\ m.timestamp >= context_since /\ m.text } = {})
          => /\ pc'[c] = "done"
             /\ c \notin called'
             /\ semaphore' = semaphore
             /\ c \in DOMAIN cache'.chats
             /\ cache'.chats[c].priority = "low"
             /\ Len(cache'.chats[c].actions) = 3
             /\ \A i \in 1..3 : cache'.chats[c].actions[i][1] = "placeholder"
             /\ cache'.chats[c].last_analyzed_at = <<"iso", now>>
             /\ cache'.chats[c].skipped = FALSE
             /\ analyzed' = analyzed + 1]_vars

\* a run has ended with the placeholder entry of a chat whose only message
\* has no text, no call having been made for it
C14_Witness ==
    /\ prog = "expectations" /\ phase = "done"
    /\ \E c \in fetched \ called :
          /\ cache.chats[c].priority = "low"
          /\ Len(cache.chats[c].actions) = 3
          /\ \A m \in store : m.chat_id = c => ~m.text
    /\ analyzed >= 1

\* C15: once gather has returned, stats.active_chats is the number of chats
\* scanned, at most the limit when there is one; analyzed counts the chats
\* that passed the gate, skipped those the gate stopped, and the two add up
\* to active_chats.
C15_Stats ==
    (prog = "expectations" /\ phase \in {"write_cache", "write_text", "replace", "done"}) =>
        /\ cache.stats # None
        /\ cache.stats[1].active_chats = Cardinality(Scanned)
        /\ args.limit # None => cache.stats[1].active_chats <= args.limit[1]
        /\ cache.stats[1].analyzed = Cardinality(fetched)
        /\ cache.stats[1].skipped = Cardinality(gate_skipped)
        /\ cache.stats[1].analyzed + cache.stats[1].skipped = cache.stats[1].active_chats

\* a run over two chats has returned, one chat analyzed and one skipped
C15_Witness ==
    /\ prog = "expectations" /\ phase = "done"
    /\ cache.stats = Some([active_chats |-> 2, analyzed |-> 1, skipped |-> 1])

(***************************************************************************)
(* One call of IntentClassifier.classify, the provider answering anything. *)
(***************************************************************************)
\* the values the provider can put in the fields of its object: none, one
\* the prompt asks for, or another one
AnyContents ==
    [fence : BOOLEAN, json : {"invalid", "array", "null"},
     intent : {NoField}, sentiment : {NoField}, confidence : {NoField}]
    \cup
    [fence : BOOLEAN, json : {"object"},
     intent : {NoField, <<"order">>, <<"spam">>},
     sentiment : {NoField, <<"negative">>, <<"angry">>},
     confidence : {NoField, <<0>>, <<9>>, <<15>>}]

\* exceptions of the provider call: of httpx, or any other
AnyErrors == ClassifyErrors \cup {"ConnectError", "Exception"}

AnyReplies ==
    [error : {""}, content : AnyContents, tokens : {42}]
    \cup [error : AnyErrors, content : {None}, tokens : {0}]

ClInit ==
    /\ prog = "classify"
    /\ cl_pc = "post"
    /\ cl_message_id \in Msgs
    /\ cl_reply = [error |-> "", content |-> None, tokens |-> 0]
    /\ cl_exc = ""
    /\ cl_out = None
    /\ AnIdle
    /\ ExIdle
    /\ BfIdle
    /\ WrIdle
    /\ OvIdle
    /\ PrIdle
    /\ RuIdle
    /\ LostIdle
    /\ SnIdle
    /\ RtIdle
    /\ LcIdle

\* an except clause that names the errors of httpx only
is_caught_http(exc) == exc \in {"HTTPStatusError", "ReadTimeout", "ConnectError"}

\* "except Exception" (line 190)
is_caught(exc) == TRUE

\* lines 124-161: the provider call returns a response or raises
cl_post ==
    /\ prog = "classify"
    /\ cl_pc = "post"
    /\ \E reply \in AnyReplies :
          /\ cl_reply' = reply
          /\ cl_exc' = reply.error
          /\ cl_pc' = IF reply.error = "" THEN "parse" ELSE "except"
    /\ UNCHANGED <<prog, pr_vars, ru_vars, lost_vars, sn_vars, rt_vars, lc_vars, an_vars, ex_vars, bf_vars, wr_vars, ov_vars>>
    /\ UNCHANGED <<cl_message_id, cl_out>>

\* lines 163-188: the MessageAnalysis of the response is returned, or the
\* block raises
cl_parse ==
    /\ prog = "classify"
    /\ cl_pc = "parse"
    /\ LET r == parse_reply(cl_message_id, cl_reply)
       IN  IF r.raised = ""
           THEN /\ cl_out' = Some(r.value)
                /\ cl_pc' = "returned"
                /\ UNCHANGED cl_exc
           ELSE /\ cl_exc' = r.raised
                /\ cl_pc' = "except"
                /\ UNCHANGED cl_out
    /\ UNCHANGED <<prog, pr_vars, ru_vars, lost_vars, sn_vars, rt_vars, lc_vars, an_vars, ex_vars, bf_vars, wr_vars, ov_vars>>
    /\ UNCHANGED <<cl_message_id, cl_reply>>

\* lines 190-203: the handler returns the MessageAnalysis of a failure
cl_except ==
    /\ prog = "classify"
    /\ cl_pc = "except"
    /\ IF is_caught(cl_exc)
       THEN /\ cl_out' = Some(failed_analysis(cl_message_id))
            /\ cl_pc' = "returned"
       ELSE /\ cl_pc' = "raised"
            /\ UNCHANGED cl_out
    /\ UNCHANGED <<prog, pr_vars, ru_vars, lost_vars, sn_vars, rt_vars, lc_vars, an_vars, ex_vars, bf_vars, wr_vars, ov_vars>>
    /\ UNCHANGED <<cl_message_id, cl_reply, cl_exc>>

ClNext == cl_post \/ cl_parse \/ cl_except

SpecClassify == ClInit /\ [][ClNext]_vars

\* C19: classify ends by returning a MessageAnalysis for its message, never
\* by raising; for a response whose text is not JSON it is unknown/unknown
\* with confidence 0, and for a provider call that raised, whatever the
\* exception, the same with tokens_used 0.
C19_NeverRaises ==
    prog = "classify" =>
        /\ cl_pc # "raised"
        /\ cl_pc = "returned" =>
              /\ cl_out # None
              /\ cl_out[1].message_id = cl_message_id
              /\ (cl_reply.error = "" /\ cl_reply.content.json = "invalid") =>
                    /\ cl_out[1].intent = "unknown"
                    /\ cl_out[1].sentiment = "unknown"
                    /\ cl_out[1].confidence = 0
              /\ cl_reply.error # "" =>
                    /\ cl_out[1].intent = "unknown"
                    /\ cl_out[1].sentiment = "unknown"
                    /\ cl_out[1].confidence = 0
                    /\ cl_out[1].tokens_used = 0

\* classify has returned the unknown analysis after a response that is a
\* JSON array, on which .get raised
C19_Witness ==
    /\ prog = "classify" /\ cl_pc = "returned"
    /\ cl_reply.error = "" /\ cl_reply.content.json = "array"
    /\ cl_exc = "AttributeError"
    /\ cl_out[1].intent = "unknown" /\ cl_out[1].tokens_used = 0

\* C20 as stated: whatever the provider answered, the MessageAnalysis has
\* an intent and a sentiment of the data model and a confidence within
\* [0, 1] (0 to 10 tenths).
C20_Ranges ==
    (prog = "classify" /\ cl_pc = "returned") =>
        /\ cl_out[1].intent \in {"question", "order", "complaint", "interest",
                                 "confirmation", "other", "unknown"}
        /\ cl_out[1].sentiment \in {"positive", "neutral", "negative", "unknown"}
        /\ cl_out[1].confidence >= 0
        /\ cl_out[1].confidence <= 10

(***************************************************************************)
(* The two parsers of provider replies together.                           *)
(***************************************************************************)
ParsersInit == AnInit \/ ClInit

ParsersNext == AnNext \/ ClNext

SpecParsers == ParsersInit /\ [][ParsersNext]_vars

\* C18 as stated: for a text that is not JSON, or an object without the
\* field, the analyzer returns priority "medium", and the classifier
\* returns intent "unknown", sentiment "neutral" and confidence 0.
C18_Original ==
    /\ (prog = "analyze" /\ an_pc = "returned"
          /\ (\/ last_http.content[1].json = "invalid"
              \/ last_http.content[1].priority = "missing"))
          => an_out[1].result.priority = "medium"
    /\ (prog = "classify" /\ cl_pc = "returned" /\ cl_reply.error = ""
          /\ cl_reply.content.json \in {"invalid", "object"}) =>
          /\ (cl_reply.content.json = "invalid" \/ cl_reply.content.intent = << >>)
                => cl_out[1].intent = "unknown"
          /\ (cl_reply.content.json = "invalid" \/ cl_reply.content.sentiment = << >>)
                => cl_out[1].sentiment = "neutral"
          /\ (cl_reply.content.json = "invalid" \/ cl_reply.content.confidence = << >>)
                => cl_out[1].confidence = 0

\* C18 amended: the analyzer returns priority "low" for a text that is not
\* JSON and "medium" for an object without priority; the classifier returns
\* intent "unknown", sentiment "unknown" and confidence 0 for a text that is
\* not JSON, and for an object without the field intent "unknown",
\* sentiment "unknown", confidence 0.5.
C18_Defaults ==
    /\ (prog = "analyze" /\ an_pc = "returned") =>
          /\ last_http.content[1].json = "invalid"
                => an_out[1].result.priority = "low"
          /\ (last_http.content[1].json = "object"
                /\ last_http.content[1].priority = "missing")
                => an_out[1].result.priority = "medium"
    /\ (prog = "classify" /\ cl_pc = "returned" /\ cl_reply.error = "") =>
          /\ cl_reply.content.json = "invalid" =>
                /\ cl_out[1].intent = "unknown"
                /\ cl_out[1].sentiment = "unknown"
                /\ cl_out[1].confidence = 0
          /\ cl_reply.content.json = "object" =>
                /\ cl_reply.content.intent = << >> => cl_out[1].intent = "unknown"
                /\ cl_reply.content.sentiment = << >> => cl_out[1].sentiment = "unknown"
                /\ cl_reply.content.confidence = << >> => cl_out[1].confidence = 5

\* the classifier has returned unknown/unknown with confidence 0.5 for an
\* object without any of the fields
C18_Witness ==
    /\ prog = "classify" /\ cl_pc = "returned"
    /\ cl_reply.error = "" /\ cl_reply.content.json = "object"
    /\ cl_reply.content.intent = << >>
    /\ cl_reply.content.sentiment = << >>
    /\ cl_reply.content.confidence = << >>
    /\ cl_out[1].intent = "unknown"
    /\ cl_out[1].sentiment = "unknown"
    /\ cl_out[1].confidence = 5

(***************************************************************************)
(* write_cache in two processes: scripts/analyze_expectations.py and the   *)
(* API server handling POST /chats/expectations/refresh.  Each has come to *)
(* line 366 of analyze_expectations with its document; the two share the   *)
(* files and nothing else.                                                 *)
(***************************************************************************)
\* the documents a run may have built
WrDocs == {[updated_at |-> isoformat(t), chats |-> << >>, stats |-> None] : t \in 1..MaxTime}

\* the other process
other(w) == CHOOSE o \in Writers : o # w

\* "if not dry_run: write_cache(cache)": the call is made
wr_begin(w) ==
    /\ prog = "writers"
    /\ wr_pc[w] \in {"idle", "failed"}
    /\ \E d \in WrDocs : wr_doc' = [wr_doc EXCEPT ![w] = d]
    /\ wr_pc' = [wr_pc EXCEPT ![w] = "open"]
    /\ wr_raced' = [wr_raced EXCEPT ![w] = FALSE]
    /\ wr_fd' = [wr_fd EXCEPT ![w] = tmp_path]
    /\ UNCHANGED <<prog, pr_vars, ru_vars, lost_vars, sn_vars, rt_vars, lc_vars, an_vars, world_vars, run_vars, obs_vars, bf_vars, cl_vars, ov_vars>>

\* the other process is writing into the file found at the path
writes_into(o, path) == wr_pc[o] = "write_text" /\ wr_fd[o] = path

\* tmp_path.write_text(...) opens and truncates the file at tmp_path; a
\* process that is writing into that file goes on writing into it
wr_open(w) ==
    /\ prog = "writers"
    /\ wr_pc[w] = "open"
    /\ fs' = [fs EXCEPT ![tmp_path] = [exists |-> TRUE, complete |-> FALSE, doc |-> wr_doc[w]]]
    /\ wr_pc' = [wr_pc EXCEPT ![w] = "write_text"]
    /\ wr_raced' = IF writes_into(other(w), tmp_path)
                   THEN [o \in Writers |-> TRUE]
                   ELSE wr_raced
    /\ UNCHANGED <<prog, pr_vars, ru_vars, lost_vars, sn_vars, rt_vars, lc_vars, an_vars, now, store, run_vars, obs_vars, bf_vars, cl_vars, ov_vars>>
    /\ UNCHANGED <<wr_doc, wr_fd>>

\* write_text returns.  The file holds the text of this process, unless the
\* other process wrote into the same file: then it holds either text whole
\* or a mixture of the two.
wr_close(w) ==
    /\ prog = "writers"
    /\ wr_pc[w] = "write_text"
    /\ IF wr_fd[w] = "unlinked"
       THEN UNCHANGED fs
       ELSE \E content \in IF wr_raced[w]
                           THEN {[exists |-> TRUE, complete |-> TRUE, doc |-> wr_doc[w]],
                                 [exists |-> TRUE, complete |-> TRUE, doc |-> wr_doc[other(w)]],
                                 [exists |-> TRUE, complete |-> FALSE, doc |-> wr_doc[w]]}
                           ELSE {[exists |-> TRUE, complete |-> TRUE, doc |-> wr_doc[w]]} :
                fs' = [fs EXCEPT ![wr_fd[w]] = content]
    /\ wr_pc' = [wr_pc EXCEPT ![w] = "replace"]
    /\ UNCHANGED <<prog, pr_vars, ru_vars, lost_vars, sn_vars, rt_vars, lc_vars, an_vars, now, store, run_vars, obs_vars, bf_vars, cl_vars, ov_vars>>
    /\ UNCHANGED <<wr_doc, wr_fd, wr_raced>>

\* os.replace(tmp_path, CACHE_PATH): the file at tmp_path takes the place of
\* the one at CACHE_PATH, or FileNotFoundError when the other process has
\* renamed it already
wr_replace(w) ==
    /\ prog = "writers"
    /\ wr_pc[w] = "replace"
    /\ IF fs[tmp_path].exists
       THEN /\ fs' = [fs EXCEPT ![CACHE_PATH] = fs[tmp_path], ![tmp_path] = NoFile]
            /\ wr_pc' = [wr_pc EXCEPT ![w] = "idle"]
            /\ wr_fd' = [o \in Writers |->
                            IF o = w THEN wr_fd[o]
                            ELSE IF writes_into(o, tmp_path) THEN CACHE_PATH
                            ELSE IF writes_into(o, CACHE_PATH) THEN "unlinked"
                            ELSE wr_fd[o]]
       ELSE /\ wr_pc' = [wr_pc EXCEPT ![w] = "failed"]
            /\ UNCHANGED <<fs, wr_fd>>
    /\ UNCHANGED <<prog, pr_vars, ru_vars, lost_vars, sn_vars, rt_vars, lc_vars, an_vars, now, store, run_vars, obs_vars, bf_vars, cl_vars, ov_vars>>
    /\ UNCHANGED <<wr_doc, wr_raced>>

WrInit ==
    /\ prog = "writers"
    /\ AnIdle
    /\ ExIdle
    /\ BfIdle
    /\ ClIdle
    /\ WrIdle
    /\ OvIdle
    /\ PrIdle
    /\ RuIdle
    /\ LostIdle
    /\ SnIdle
    /\ RtIdle
    /\ LcIdle

WrNext ==
    \E w \in Writers : wr_begin(w) \/ wr_open(w) \/ wr_close(w) \/ wr_replace(w)

SpecWriters == WrInit /\ [][WrNext]_vars

\* the processes that are inside write_cache
InWriteCache == {w \in Writers : wr_pc[w] \in {"open", "write_text", "replace"}}

\* C12: at most one execution of write_cache is in progress at any time,
\* also when the script and the refresh endpoint run at the same time.
C12_SingleWriter ==
    prog = "writers" => Cardinality(InWriteCache) <= 1

(***************************************************************************)
(* Two runs of scripts/analyze_messages.py over the same tables and the    *)
(* same window.  The first is the run of SpecBackfill; the second is       *)
(* started with --batch-size 1 --concurrency 1 at any moment of the first, *)
(* or after it.  Its counters are local to its process and left out.       *)
(***************************************************************************)
\* rows that fetch_batch selects: client messages with text, in the window,
\* all of one timestamp so that the cursors go by id
OverlapRows == [timestamp : {1}, text : {"hi"}, sender : {"client"}]

OvInit ==
    /\ BfInit
    /\ messages \in [Msgs -> OverlapRows]
    /\ ~bf_args.dry_run

\* main of the second run up to its loop
o_start ==
    /\ prog = "backfill" /\ o_phase = "idle"
    /\ o_phase' = "fetch"
    /\ o_last_ts' = bf_args.since
    /\ o_last_id' = 0
    /\ UNCHANGED <<prog, pr_vars, ru_vars, lost_vars, sn_vars, rt_vars, lc_vars, an_vars, ex_vars, bf_vars, cl_vars, wr_vars>>
    /\ UNCHANGED <<o_batch, o_pc, o_analysis>>

\* fetch_batch, "if not batch: break", and process_message up to the await
\* of analysis_exists
o_fetch ==
    /\ prog = "backfill" /\ o_phase = "fetch"
    /\ o_batch' = fetch_batch(messages, message_analysis, bf_args.since, bf_args.until,
                              o_last_ts, o_last_id, 1)
    /\ IF o_batch' = << >>
       THEN /\ o_phase' = "done"
            /\ UNCHANGED o_pc
       ELSE /\ o_phase' = "tasks"
            /\ o_pc' = "exists"
    /\ UNCHANGED <<prog, pr_vars, ru_vars, lost_vars, sn_vars, rt_vars, lc_vars, an_vars, ex_vars, bf_vars, cl_vars, wr_vars>>
    /\ UNCHANGED <<o_last_ts, o_last_id, o_analysis>>

\* analysis_exists returns: "skipped_exists", or the call of classify
o_exists_return ==
    /\ prog = "backfill" /\ o_phase = "tasks"
    /\ o_pc = "exists"
    /\ o_pc' = IF analysis_exists(message_analysis, o_batch[1].id)
               THEN "done" ELSE "classify"
    /\ UNCHANGED <<prog, pr_vars, ru_vars, lost_vars, sn_vars, rt_vars, lc_vars, an_vars, ex_vars, bf_vars, cl_vars, wr_vars>>
    /\ UNCHANGED <<o_phase, o_last_ts, o_last_id, o_batch, o_analysis>>

\* classify returns; save_analysis is called
o_classify_return ==
    /\ prog = "backfill" /\ o_phase = "tasks"
    /\ o_pc = "classify"
    /\ \E reply \in ClassifyReplies :
          o_analysis' = Some(classify(o_batch[1].id, reply))
    /\ o_pc' = "save"
    /\ UNCHANGED <<prog, pr_vars, ru_vars, lost_vars, sn_vars, rt_vars, lc_vars, an_vars, ex_vars, bf_vars, cl_vars, wr_vars>>
    /\ UNCHANGED <<o_phase, o_last_ts, o_last_id, o_batch>>

\* save_analysis returns: the row is in the table
o_save_return ==
    /\ prog = "backfill" /\ o_phase = "tasks"
    /\ o_pc = "save"
    /\ message_analysis' = save_analysis(message_analysis, o_analysis[1])
    /\ o_pc' = "done"
    /\ UNCHANGED <<prog, pr_vars, ru_vars, lost_vars, sn_vars, rt_vars, lc_vars, an_vars, ex_vars, messages, loop_vars, seen_vars, cl_vars, wr_vars>>
    /\ UNCHANGED <<o_phase, o_last_ts, o_last_id, o_batch, o_analysis>>

\* gather returns: the cursor, and back to fetch_batch
o_gather_return ==
    /\ prog = "backfill" /\ o_phase = "tasks"
    /\ o_pc = "done"
    /\ o_last_ts' = o_batch[1].timestamp
    /\ o_last_id' = o_batch[1].id
    /\ o_pc' = "idle"
    /\ o_analysis' = None
    /\ o_phase' = "fetch"
    /\ UNCHANGED <<prog, pr_vars, ru_vars, lost_vars, sn_vars, rt_vars, lc_vars, an_vars, ex_vars, bf_vars, cl_vars, wr_vars>>
    /\ UNCHANGED o_batch

OvNext ==
    \/ BfNext
    \/ o_start
    \/ o_fetch
    \/ o_exists_return
    \/ o_classify_return
    \/ o_save_return
    \/ o_gather_return

SpecOverlap == OvInit /\ [][OvNext]_vars

\* C13: message_analysis never holds two rows for one message id, the two
\* runs overlapping in any way.
C13_NoDuplicate ==
    prog = "backfill" => \A m \in Msgs : Len(message_analysis[m]) <= 1
(***************************************************************************)
(* The start of analyze_expectations: load_cache and line 278.  The file   *)
(* at CACHE_PATH is                                                        *)
(*   [state |-> "missing"]                                                 *)
(*   [state |-> "unreadable"]   read_text raises OSError                   *)
(*   [state |-> "not_utf8"]     its bytes are not UTF-8 text               *)
(*   [state |-> "not_json"]     its text is not JSON                       *)
(*   [state |-> "json", value |-> v]   its text is the JSON value v:       *)
(*   [json |-> "null"], [json |-> "array"], or an object [json |->         *)
(*   "object", updated_at, chats, stats] whose chats member is             *)
(*   <<"missing">>, <<"null">> or <<"map", the entries>>                   *)
(***************************************************************************)
LcEntry(t) ==
    [last_message_at |-> isoformat(t), last_analyzed_at |-> isoformat(t),
     priority |-> "low", actions |-> PlaceholderActions, skipped |-> FALSE]

\* the entries a document written by an earlier run may hold
LcMaps ==
    UNION { [S -> { LcEntry(t) : t \in Time }] : S \in SUBSET Chats }

LcObjects ==
    [json : {"object"}, updated_at : { isoformat(t) : t \in Time },
     chats : {<<"missing">>, <<"null">>} \cup { <<"map", m>> : m \in LcMaps },
     stats : {None}]

CacheFiles ==
    { [state |-> s] : s \in {"missing", "unreadable", "not_utf8", "not_json"} }
    \cup { [state |-> "json", value |-> v] : v \in {[json |-> "null"], [json |-> "array"]} \cup LcObjects }

\* the default of load_cache (lines 167 and 172)
LcDefault == [json |-> "object", updated_at |-> None, chats |-> <<"map", << >> >>, stats |-> None]

LcInit ==
    /\ prog = "load"
    /\ AnIdle
    /\ ExIdle
    /\ BfIdle
    /\ ClIdle
    /\ WrIdle
    /\ OvIdle
    /\ PrIdle
    /\ RuIdle
    /\ LostIdle
    /\ SnIdle
    /\ RtIdle
    /\ lc_pc = "exists"
    /\ lc_file \in CacheFiles
    /\ lc_exc = ""
    /\ lc_cache = None
    /\ lc_chats = None

\* "except (json.JSONDecodeError, OSError)"
lc_is_caught(exc) == exc \in {"JSONDecodeError", "OSError"}

\* "if not CACHE_PATH.exists(): return {...}"
lc_exists ==
    /\ prog = "load"
    /\ lc_pc = "exists"
    /\ IF lc_file.state = "missing"
       THEN /\ lc_cache' = Some(LcDefault)
            /\ lc_pc' = "get"
       ELSE /\ lc_pc' = "read_text"
            /\ UNCHANGED lc_cache
    /\ UNCHANGED <<prog, pr_vars, ru_vars, lost_vars, sn_vars, rt_vars, an_vars, ex_vars, bf_vars, cl_vars, wr_vars, ov_vars>>
    /\ UNCHANGED <<lc_file, lc_exc, lc_chats>>

\* CACHE_PATH.read_text(encoding="utf-8")
lc_read_text ==
    /\ prog = "load"
    /\ lc_pc = "read_text"
    /\ IF lc_file.state = "unreadable"
       THEN lc_exc' = "OSError" /\ lc_pc' = "except"
       ELSE IF lc_file.state = "not_utf8"
       THEN lc_exc' = "UnicodeDecodeError" /\ lc_pc' = "except"
       ELSE lc_pc' = "loads" /\ UNCHANGED lc_exc
    /\ UNCHANGED <<prog, pr_vars, ru_vars, lost_vars, sn_vars, rt_vars, an_vars, ex_vars, bf_vars, cl_vars, wr_vars, ov_vars>>
    /\ UNCHANGED <<lc_file, lc_cache, lc_chats>>

\* json.loads(...), and the return of its value
lc_loads ==
    /\ prog = "load"
    /\ lc_pc = "loads"
    /\ IF lc_file.state = "not_json"
       THEN /\ lc_exc' = "JSONDecodeError"
            /\ lc_pc' = "except"
            /\ UNCHANGED lc_cache
       ELSE /\ lc_cache' = Some(lc_file.value)
            /\ lc_pc' = "get"
            /\ UNCHANGED lc_exc
    /\ UNCHANGED <<prog, pr_vars, ru_vars, lost_vars, sn_vars, rt_vars, an_vars, ex_vars, bf_vars, cl_vars, wr_vars, ov_vars>>
    /\ UNCHANGED <<lc_file, lc_chats>>

\* the except clause of load_cache: the default, or the exception goes on
\* to the caller of analyze_expectations
lc_except ==
    /\ prog = "load"
    /\ lc_pc = "except"
    /\ IF lc_is_caught(lc_exc)
       THEN /\ lc_cache' = Some(LcDefault)
            /\ lc_pc' = "get"
       ELSE /\ lc_pc' = "raised"
            /\ UNCHANGED lc_cache
    /\ UNCHANGED <<prog, pr_vars, ru_vars, lost_vars, sn_vars, rt_vars, an_vars, ex_vars, bf_vars, cl_vars, wr_vars, ov_vars>>
    /\ UNCHANGED <<lc_file, lc_exc, lc_chats>>

\* line 278: chats_cache = cache.get("chats", {})
lc_get ==
    /\ prog = "load"
    /\ lc_pc = "get"
    /\ IF lc_cache[1].json # "object"
       THEN /\ lc_exc' = "AttributeError"
            /\ lc_pc' = "raised"
            /\ UNCHANGED lc_chats
       ELSE /\ lc_chats' = Some(IF lc_cache[1].chats = <<"missing">>
                                THEN <<"map", << >> >>
                                ELSE lc_cache[1].chats)
            /\ lc_pc' = "started"
            /\ UNCHANGED lc_exc
    /\ UNCHANGED <<prog, pr_vars, ru_vars, lost_vars, sn_vars, rt_vars, an_vars, ex_vars, bf_vars, cl_vars, wr_vars, ov_vars>>
    /\ UNCHANGED <<lc_file, lc_cache>>

LcNext == lc_exists \/ lc_read_text \/ lc_loads \/ lc_except \/ lc_get

SpecLoad == LcInit /\ [][LcNext]_vars

\* the file is missing, or is not a document a run wrote
Corrupt == lc_file.state # "json" \/ lc_file.value.json # "object"

\* C21: on a missing or corrupt cache document nothing is raised, neither
\* by load_cache nor by the start of the run, and the run starts with no
\* chat in its cache.
C21_LoadNeverFails ==
    (prog = "load" /\ Corrupt) =>
        /\ lc_pc # "raised"
        /\ lc_pc = "started" => lc_chats = Some(<<"map", << >> >>)
(***************************************************************************)
(* Further properties of the backfill loop.                                *)
(***************************************************************************)
\* the cursor as a row
Cursor == [id |-> last_id, timestamp |-> last_ts]

\* C22: from one iteration to the next the cursor strictly increases in
\* the (timestamp, id) order; it moves only when every task of the batch has
\* completed, and then to the last row of the batch; every row of a fetched
\* batch is strictly greater than the cursor of its fetch.
C22_CursorAdvances ==
    [][prog = "backfill" =>
         /\ <<last_ts, last_id>>' # <<last_ts, last_id>> =>
               /\ precedes(Cursor, Cursor')
               /\ \A i \in 1..Len(batch) : bf_pc[batch[i].id] = "done"
               /\ last_ts' = batch[Len(batch)].timestamp
               /\ last_id' = batch[Len(batch)].id
         /\ batch' # batch =>
               \A i \in 1..Len(batch') :
                   precedes(Cursor, [id |-> batch'[i].id,
                                     timestamp |-> batch'[i].timestamp])]_vars

\* the cursor has moved and a further batch has been fetched with it
C22_Witness ==
    /\ prog = "backfill"
    /\ bf_phase = "tasks"
    /\ last_id # 0
    /\ batch # << >>
    /\ batch[1].id # last_id
    /\ batch[1].timestamp = last_ts
\* the backfill loop, every step that can be taken being taken in the end:
\* the queries return and the tasks of a batch complete
SpecBackfillFair == SpecBackfill /\ WF_vars(BfNext)

\* C23: the loop ends, and it ends at a fetch that returned no row: the
\* first such fetch, every fetch of no row ending it.
C23_Terminates ==
    /\ <>(prog = "backfill" /\ bf_phase = "done")
    /\ [][prog = "backfill" =>
            /\ (bf_phase # "done" /\ bf_phase' = "done") =>
                   (bf_phase = "fetch" /\ batch' = << >>)
            /\ (bf_phase = "fetch" /\ batch' = << >>) => bf_phase' = "done"
            /\ bf_phase = "done" => bf_phase' = "done"]_vars

\* the loop has ended after two batches at least
C23_Witness ==
    /\ prog = "backfill"
    /\ bf_phase = "done"
    /\ batch = << >>
    /\ Len(visited) > bf_args.batch_size
(***************************************************************************)
(* The role column of _fetch_context.  A message of the chat comes with    *)
(* the columns of its sender after the two LEFT JOINs: ur.is_bot,          *)
(* ur.role_name and u.is_manager, each "NULL" when the row or the value is *)
(* missing; SQL booleans are "TRUE" and "FALSE".                           *)
(***************************************************************************)
MaxContext == 2      \* most messages of a context

SqlBooleans == {"TRUE", "FALSE", "NULL"}

Senders ==
    [is_bot : SqlBooleans,
     role_name : {"NULL", "", "director", "manager", "client", "Director"},
     is_manager : SqlBooleans]

\* COALESCE(value, default)
coalesce(value, default) == IF value = "NULL" THEN default ELSE value

\* a CASE that looks at the role name before the bot flag
role_expr_by_name(sender) ==
    IF coalesce(sender.role_name, "") = "director" THEN "DIRECTOR"
    ELSE IF coalesce(sender.is_bot, "FALSE") = "TRUE" THEN "BOT"
    ELSE IF \/ coalesce(sender.role_name, "") = "manager"
            \/ coalesce(sender.is_manager, "FALSE") = "TRUE" THEN "MANAGER"
    ELSE "CLIENT"

\* role_expr: the CASE of lines 205-213, the first WHEN that is true
role_expr(sender) ==
    IF coalesce(sender.is_bot, "FALSE") = "TRUE" THEN "BOT"
    ELSE IF coalesce(sender.role_name, "") = "director" THEN "DIRECTOR"
    ELSE IF \/ coalesce(sender.role_name, "") = "manager"
            \/ coalesce(sender.is_manager, "FALSE") = "TRUE" THEN "MANAGER"
    ELSE "CLIENT"

\* the messages of a chat, by their senders, in the order of the result
RtInit ==
    /\ prog = "roles"
    /\ AnIdle
    /\ ExIdle
    /\ BfIdle
    /\ ClIdle
    /\ WrIdle
    /\ OvIdle
    /\ PrIdle
    /\ RuIdle
    /\ LostIdle
    /\ SnIdle
    /\ LcIdle
    /\ rt_pc = "fetch"
    /\ rt_senders \in UNION { [1..n -> Senders] : n \in 1..MaxContext }
    /\ rt_context = << >>

\* db.fetch returns: one row a message, with its role
rt_fetch_return ==
    /\ prog = "roles"
    /\ rt_pc = "fetch"
    /\ rt_context' = [i \in 1..Len(rt_senders) |-> [role |-> role_expr(rt_senders[i])]]
    /\ rt_pc' = "returned"
    /\ UNCHANGED <<prog, pr_vars, ru_vars, lost_vars, sn_vars, an_vars, ex_vars, bf_vars, cl_vars, wr_vars, ov_vars, lc_vars>>
    /\ UNCHANGED rt_senders

SpecRoles == RtInit /\ [][rt_fetch_return]_vars

\* C24: the role of every message of a context is BOT when its sender is a
\* bot, whatever else is set; else DIRECTOR when the sender's role is
\* director; else MANAGER when the role is manager or is_manager is set;
\* else CLIENT.
C24_RolePrecedence ==
    (prog = "roles" /\ rt_pc = "returned") =>
        /\ Len(rt_context) = Len(rt_senders)
        /\ \A i \in 1..Len(rt_senders) :
             LET s == rt_senders[i]
                 role == rt_context[i].role
             IN  /\ s.is_bot = "TRUE" => role = "BOT"
                 /\ (s.is_bot # "TRUE" /\ s.role_name = "director") => role = "DIRECTOR"
                 /\ (s.is_bot # "TRUE" /\ s.role_name # "director"
                       /\ (s.role_name = "manager" \/ s.is_manager = "TRUE"))
                       => role = "MANAGER"
                 /\ (s.is_bot # "TRUE" /\ s.role_name \notin {"director", "manager"}
                       /\ s.is_manager # "TRUE") => role = "CLIENT"

\* a context with the message of a bot whose role is director, and the
\* message of a manager by flag alone
C24_Witness ==
    /\ prog = "roles" /\ rt_pc = "returned"
    /\ Len(rt_senders) = 2
    /\ rt_senders[1].is_bot = "TRUE" /\ rt_senders[1].role_name = "director"
    /\ rt_context[1].role = "BOT"
    /\ rt_senders[2].is_bot = "NULL" /\ rt_senders[2].role_name = "NULL"
    /\ rt_senders[2].is_manager = "TRUE"
    /\ rt_context[2].role = "MANAGER"
\* C25: the context fetches of a run that are in flight are never more than
\* the concurrency argument of the run.
C25_BoundedFetches ==
    prog = "expectations" =>
        Cardinality({ c \in Chats : pc[c] = "fetch" }) <= args.concurrency
(***************************************************************************)
(* A run of scripts/analyze_messages.py that stops, and a new run over the *)
(* same window started after it (with --batch-size 1 --concurrency 1).     *)
(***************************************************************************)
\* the first run is not a dry run
RestartInit ==
    /\ BfInit
    /\ ~bf_args.dry_run

\* the process of the first run ends where it is: killed, or by an exception
bf_stop ==
    /\ prog = "backfill"
    /\ bf_phase \in {"fetch", "tasks"}
    /\ o_phase = "idle"
    /\ bf_phase' = "stopped"
    /\ UNCHANGED <<prog, pr_vars, ru_vars, lost_vars, sn_vars, an_vars, ex_vars, table_vars, seen_vars, cl_vars, wr_vars,
                   ov_vars, lc_vars, rt_vars>>
    /\ UNCHANGED <<bf_args, last_ts, last_id, batch, bf_pc, bf_semaphore, analysis,
                   results, total_processed, total_saved, intent_counts>>

\* the new run is started once the first has ended
o_restart ==
    /\ bf_phase \in {"stopped", "done"}
    /\ o_start

RestartNext ==
    \/ BfNext
    \/ bf_stop
    \/ o_restart
    \/ o_fetch
    \/ o_exists_return
    \/ o_classify_return
    \/ o_save_return
    \/ o_gather_return

SpecRestart == RestartInit /\ [][RestartNext]_vars

\* the messages of the window that fetch_batch is for: with a text, and of a
\* sender who is neither bot nor staff nor manager
InWindow(m) ==
    /\ messages[m].timestamp >= bf_args.since
    /\ messages[m].timestamp <= bf_args.until
    /\ messages[m].text \notin {"NULL", ""}
    /\ messages[m].sender = "client"

\* C26: the new run calls the classifier for no message that has a stored
\* result, and when it has finished every eligible message of the window
\* has exactly one stored result.
C26_Resumable ==
    prog = "backfill" =>
        /\ o_pc \in {"classify", "save"} => message_analysis[o_batch[1].id] = << >>
        /\ \A m \in Msgs : Len(message_analysis[m]) <= 1
        /\ o_phase = "done" =>
              \A m \in Msgs : InWindow(m) => Len(message_analysis[m]) = 1

\* the first run stopped after it had stored a result, with a message left,
\* and the new run has finished after it took a message up
C26_Witness ==
    /\ prog = "backfill"
    /\ bf_phase = "stopped"
    /\ o_phase = "done"
    /\ o_last_id # 0
    /\ \E m \in Msgs : bf_pc[m] = "done" /\ results[m] # None /\ results[m][1][1]
(***************************************************************************)
(* scripts/analyze_sentiment.py, process_day.  Msgs are the messages of    *)
(* the day that have a text, in the order of their timestamps;             *)
(* sn_sentiment is their sentiment column, "NULL" when not set.            *)
(***************************************************************************)
\* "if offset > 10000: break"
OffsetCap == 10000

\* what the provider says of a message: a sentiment, one that is not of the
\* three, or nothing (its index is not among the results)
SentimentReplies == {"positive", "negative", "neutral", "angry", "omitted"}

\* get_messages_for_date: the rows with sentiment IS NULL, ORDER BY
\* timestamp, LIMIT limit OFFSET offset
get_messages_for_date(sentiment, limit, offset) ==
    LET hits == { m \in DOMAIN sentiment : sentiment[m] = "NULL" }
        n == Cardinality(hits)
        ordered == CHOOSE s \in [1..n -> hits] : \A i, j \in 1..n : i < j => s[i] < s[j]
        last == IF offset + limit < n THEN offset + limit ELSE n
    IN  SubSeq(ordered, offset + 1, last)

\* analyze_sentiment_batch: {message_id: sentiment} for the messages the
\* provider answered for, "neutral" for an answer that is not of the three
analyze_sentiment_batch(page, reply) ==
    [m \in { page[i] : i \in { k \in 1..Len(page) : reply[k] # "omitted" } } |->
        LET i == CHOOSE k \in 1..Len(page) : page[k] = m
        IN  IF reply[i] \in {"positive", "negative", "neutral"} THEN reply[i]
            ELSE "neutral"]

SnInit ==
    /\ prog = "sentiment"
    /\ AnIdle
    /\ ExIdle
    /\ BfIdle
    /\ ClIdle
    /\ WrIdle
    /\ OvIdle
    /\ PrIdle
    /\ RuIdle
    /\ LostIdle
    /\ LcIdle
    /\ RtIdle
    /\ sn_phase = "fetch"
    /\ sn_args \in [limit : 1..MaxBatch, dry_run : BOOLEAN]
    /\ sn_offset = 0
    /\ sn_batch = << >>
    /\ sn_results = << >>
    /\ sn_sentiment \in [Msgs -> {"NULL", "positive"}]
    /\ sn_omitted = {}

\* lines 236-254: the query, "if not messages: break", and the dry run's
\* "offset += limit; continue"
sn_fetch ==
    /\ prog = "sentiment"
    /\ sn_phase = "fetch"
    /\ sn_batch' = get_messages_for_date(sn_sentiment, sn_args.limit, sn_offset)
    /\ IF sn_batch' = << >>
       THEN sn_phase' = "done" /\ UNCHANGED sn_offset
       ELSE IF sn_args.dry_run
       THEN sn_phase' = "fetch" /\ sn_offset' = sn_offset + sn_args.limit
       ELSE sn_phase' = "analyze" /\ UNCHANGED sn_offset
    /\ UNCHANGED <<prog, pr_vars, ru_vars, lost_vars, an_vars, ex_vars, bf_vars, cl_vars, wr_vars, ov_vars, lc_vars, rt_vars>>
    /\ UNCHANGED <<sn_args, sn_results, sn_sentiment, sn_omitted>>

\* line 257: analyze_sentiment_batch returns
sn_analyze_return ==
    /\ prog = "sentiment"
    /\ sn_phase = "analyze"
    /\ \E reply \in [1..Len(sn_batch) -> SentimentReplies] :
          /\ sn_results' = analyze_sentiment_batch(sn_batch, reply)
          /\ sn_omitted' = sn_omitted \cup
                 { sn_batch[i] : i \in { k \in 1..Len(sn_batch) : reply[k] = "omitted" } }
    /\ sn_phase' = "update"
    /\ UNCHANGED <<prog, pr_vars, ru_vars, lost_vars, an_vars, ex_vars, bf_vars, cl_vars, wr_vars, ov_vars, lc_vars, rt_vars>>
    /\ UNCHANGED <<sn_args, sn_offset, sn_batch, sn_sentiment>>

\* lines 260-283: the UPDATEs, "offset += limit", and the cap
sn_update ==
    /\ prog = "sentiment"
    /\ sn_phase = "update"
    /\ sn_sentiment' = [m \in DOMAIN sn_sentiment |->
                           IF m \in DOMAIN sn_results THEN sn_results[m]
                           ELSE sn_sentiment[m]]
    /\ sn_offset' = sn_offset + sn_args.limit
    /\ sn_phase' = IF sn_offset' > OffsetCap THEN "done" ELSE "fetch"
    /\ UNCHANGED <<prog, pr_vars, ru_vars, lost_vars, an_vars, ex_vars, bf_vars, cl_vars, wr_vars, ov_vars, lc_vars, rt_vars>>
    /\ UNCHANGED <<sn_args, sn_batch, sn_results, sn_omitted>>

SpecSentiment == SnInit /\ [][sn_fetch \/ sn_analyze_return \/ sn_update]_vars

\* C27: when process_day has ended (not a dry run), every message of the
\* day with a text has a sentiment, those apart for which the provider gave
\* no answer: the paging skips none.
C27_NoneSkipped ==
    (prog = "sentiment" /\ sn_phase = "done" /\ ~sn_args.dry_run) =>
        \A m \in Msgs : m \notin sn_omitted => sn_sentiment[m] # "NULL"
\* C28: a message stored while its conversation was being analyzed is not
\* lost: no run skips at the staleness gate (force being false) a
\* conversation that has a message which was in no context yet.
C28_NoLostMessage ==
    prog = "expectations" =>
        \A m \in unseen : m.chat_id \notin gate_skipped
(***************************************************************************)
(* Two runs of analyze_expectations that overlap: the script and a request *)
(* of POST /chats/expectations/refresh, or two such requests.  Each loads  *)
(* the cache, analyzes conversations, and writes its document; write_cache *)
(* is taken as one step here.                                              *)
(***************************************************************************)
RuInit ==
    /\ prog = "runs"
    /\ AnIdle
    /\ ExIdle
    /\ BfIdle
    /\ ClIdle
    /\ WrIdle
    /\ OvIdle
    /\ PrIdle
    /\ LcIdle
    /\ RtIdle
    /\ SnIdle
    /\ LostIdle
    /\ ru_pc = [r \in Writers |-> "start"]
    /\ ru_cache = [r \in Writers |-> EmptyDoc]
    /\ ru_made = [r \in Writers |-> << >>]

\* lines 277-278: cache = load_cache()
ru_load(r) ==
    /\ prog = "runs"
    /\ ru_pc[r] = "start"
    /\ ru_cache' = [ru_cache EXCEPT ![r] = load_cache(fs[CACHE_PATH])]
    /\ ru_pc' = [ru_pc EXCEPT ![r] = "tasks"]
    /\ UNCHANGED <<prog, pr_vars, an_vars, ex_vars, bf_vars, cl_vars, wr_vars, ov_vars, lc_vars,
                   rt_vars, sn_vars, lost_vars>>
    /\ UNCHANGED ru_made

\* process_chat for a conversation of the run, to its end (lines 334-352):
\* the entry is stamped with the time of the clock, which may have moved
ru_process_chat(r, c) ==
    /\ prog = "runs"
    /\ ru_pc[r] = "tasks"
    /\ c \notin DOMAIN ru_made[r]
    /\ \E t \in { now, now + 1 } \cap Time :
          /\ now' = t
          /\ ru_cache' = [ru_cache EXCEPT ![r].chats =
                put(@, c, [last_message_at |-> isoformat(now),
                           last_analyzed_at |-> isoformat(t),
                           priority |-> "high",
                           actions |-> PlaceholderActions,
                           skipped |-> FALSE])]
          /\ ru_made' = [ru_made EXCEPT ![r] = put(@, c, t)]
    /\ UNCHANGED <<prog, pr_vars, an_vars, store, fs, run_vars, obs_vars, bf_vars, cl_vars, wr_vars,
                   ov_vars, lc_vars, rt_vars, sn_vars, lost_vars>>
    /\ UNCHANGED ru_pc

\* lines 357-368: gather has returned; updated_at, and write_cache
ru_write(r) ==
    /\ prog = "runs"
    /\ ru_pc[r] = "tasks"
    /\ ru_cache' = [ru_cache EXCEPT
                      ![r].updated_at = isoformat(now),
                      ![r].stats = Some([active_chats |-> Cardinality(DOMAIN ru_made[r]),
                                         analyzed |-> Cardinality(DOMAIN ru_made[r]),
                                         skipped |-> 0])]
    /\ fs' = [fs EXCEPT ![CACHE_PATH] =
                 [exists |-> TRUE, complete |-> TRUE, doc |-> ru_cache'[r]]]
    /\ ru_pc' = [ru_pc EXCEPT ![r] = "done"]
    /\ UNCHANGED <<prog, pr_vars, an_vars, now, store, run_vars, obs_vars, bf_vars, cl_vars, wr_vars,
                   ov_vars, lc_vars, rt_vars, sn_vars, lost_vars>>
    /\ UNCHANGED ru_made

SpecRuns ==
    RuInit /\ [][\E r \in Writers : \/ ru_load(r)
                                    \/ \E c \in Chats : ru_process_chat(r, c)
                                    \/ ru_write(r)]_vars

\* C29: when both runs have finished, the cache file holds for every
\* conversation analyzed by either run an entry at least as recent as the
\* one that run produced.
C29_NoLostUpdate ==
    (prog = "runs" /\ \A r \in Writers : ru_pc[r] = "done") =>
        \A r \in Writers : \A c \in DOMAIN ru_made[r] :
            /\ c \in DOMAIN fs[CACHE_PATH].doc.chats
            /\ fs[CACHE_PATH].doc.chats[c].last_analyzed_at[2] >= ru_made[r][c]
(***************************************************************************)
(* api/routes/send.py: one row of pending_responses, the only row of its   *)
(* batch, and the requests of the sandbox for it.  pr_status is the status *)
(* column, "deleted" once the row is gone; pr_deliveries has, for every    *)
(* delivery to the chat, the status the row had at that moment.            *)
(***************************************************************************)
\* send_message has inserted the row with status 'pending'
PrInit ==
    /\ prog = "send"
    /\ AnIdle
    /\ ExIdle
    /\ BfIdle
    /\ ClIdle
    /\ WrIdle
    /\ OvIdle
    /\ LcIdle
    /\ RtIdle
    /\ SnIdle
    /\ LostIdle
    /\ RuIdle
    /\ pr_status = "pending"
    /\ pr_pc = [r \in SandboxRequests |-> "idle"]
    /\ pr_deliveries = << >>

\* approve_response and approve_batch: the SELECT ... AND status = 'pending',
\* and the 404 when it gives no row
pr_select(r) ==
    /\ prog = "send"
    /\ pr_pc[r] = "idle"
    /\ pr_pc' = [pr_pc EXCEPT ![r] =
                    IF pr_status # "pending" THEN "not_found"
                    ELSE IF r = "approve_batch" THEN "schedule" ELSE "send"]
    /\ UNCHANGED <<prog, an_vars, ex_vars, bf_vars, cl_vars, wr_vars, ov_vars, lc_vars,
                   rt_vars, sn_vars, lost_vars, ru_vars>>
    /\ UNCHANGED <<pr_status, pr_deliveries>>

\* approve_batch: "UPDATE pending_responses SET scheduled_at = ..."
pr_schedule ==
    /\ prog = "send"
    /\ pr_pc["approve_batch"] = "schedule"
    /\ pr_pc' = [pr_pc EXCEPT !["approve_batch"] = "send"]
    /\ UNCHANGED <<prog, an_vars, ex_vars, bf_vars, cl_vars, wr_vars, ov_vars, lc_vars,
                   rt_vars, sn_vars, lost_vars, ru_vars>>
    /\ UNCHANGED <<pr_status, pr_deliveries>>

\* sandbox_manager.send_approved_message ends: True with the message
\* delivered, False, or an exception, which approve_batch catches and
\* approve_response lets through
pr_send_return(r) ==
    /\ prog = "send"
    /\ pr_pc[r] = "send"
    /\ \E outcome \in {"True", "False", "raise"} :
          /\ pr_deliveries' = IF outcome = "True" THEN Append(pr_deliveries, pr_status)
                              ELSE pr_deliveries
          /\ pr_pc' = [pr_pc EXCEPT ![r] =
                          IF outcome = "True" THEN "update_sent"
                          ELSE IF outcome = "False" \/ r = "approve_batch"
                          THEN "update_failed"
                          ELSE "raised"]
    /\ UNCHANGED <<prog, an_vars, ex_vars, bf_vars, cl_vars, wr_vars, ov_vars, lc_vars,
                   rt_vars, sn_vars, lost_vars, ru_vars>>
    /\ UNCHANGED pr_status

\* "UPDATE pending_responses SET status = 'sent' ... WHERE id = $1", or
\* 'failed': whatever the status is now, if the row is still there
pr_update(r) ==
    /\ prog = "send"
    /\ pr_pc[r] \in {"update_sent", "update_failed"}
    /\ pr_status' = IF pr_status = "deleted" THEN "deleted"
                    ELSE IF pr_pc[r] = "update_sent" THEN "sent" ELSE "failed"
    /\ pr_pc' = [pr_pc EXCEPT ![r] = "done"]
    /\ UNCHANGED <<prog, an_vars, ex_vars, bf_vars, cl_vars, wr_vars, ov_vars, lc_vars,
                   rt_vars, sn_vars, lost_vars, ru_vars>>
    /\ UNCHANGED pr_deliveries

\* reject_response, reject_batch: "... SET status = 'rejected' WHERE ... AND
\* status = 'pending'"
pr_reject ==
    /\ prog = "send"
    /\ pr_pc["reject"] = "idle"
    /\ pr_status' = IF pr_status = "pending" THEN "rejected" ELSE pr_status
    /\ pr_pc' = [pr_pc EXCEPT !["reject"] = "done"]
    /\ UNCHANGED <<prog, an_vars, ex_vars, bf_vars, cl_vars, wr_vars, ov_vars, lc_vars,
                   rt_vars, sn_vars, lost_vars, ru_vars>>
    /\ UNCHANGED pr_deliveries

\* delete_pending, delete_batch: "DELETE ... WHERE ... AND status = 'pending'"
pr_delete ==
    /\ prog = "send"
    /\ pr_pc["delete"] = "idle"
    /\ pr_status' = IF pr_status = "pending" THEN "deleted" ELSE pr_status
    /\ pr_pc' = [pr_pc EXCEPT !["delete"] = "done"]
    /\ UNCHANGED <<prog, an_vars, ex_vars, bf_vars, cl_vars, wr_vars, ov_vars, lc_vars,
                   rt_vars, sn_vars, lost_vars, ru_vars>>
    /\ UNCHANGED pr_deliveries

SpecSend ==
    PrInit /\ [][\/ \E r \in Approvers : pr_select(r) \/ pr_send_return(r) \/ pr_update(r)
                 \/ pr_schedule
                 \/ pr_reject
                 \/ pr_delete]_vars

\* C30: the row is delivered to its chat at most once, and only while its
\* status is 'pending': never twice, never once it was rejected or deleted.
C30_DeliveredOnce ==
    prog = "send" =>
        /\ Len(pr_deliveries) <= 1
        /\ \A i \in 1..Len(pr_deliveries) : pr_deliveries[i] = "pending"

=============================================================================
